---------------------------- MODULE Spec2Model ----------------------------
(***************************************************************************)
(* A model of the disadis download-and-authorization proxy.                *)
(*                                                                         *)
(*  - the rights model (package auth: member, incommon, canView),          *)
(*  - the authorization gate (HydraAuth.getRights, HydraAuth.Check) over   *)
(*    the time-bounded cache (package timecache: Get, Add, prune),         *)
(*  - the two HTTP entry points that map the gate's outcome to a status    *)
(*    (DownloadHandler.ServeHTTP and HydraAuth.ServeHTTP),                 *)
(*  - the cache on its own, used by concurrent goroutines and its sweeper, *)
(*  - the sweeper: the ticker New starts, and the self-scheduling variant, *)
(*  - the two seekable streams (StreamSeeker and HTTPSeeker).              *)
(*                                                                         *)
(* Time is an integer clock; 0 is Go's zero time.Time, the clock starts    *)
(* at 1.  Go slices of strings are sequences of strings.                   *)
(***************************************************************************)
EXTENDS Integers, Sequences, FiniteSets, TLC

VARIABLES
    cvHr,        \* canView harness: the hydraRights receiver
    cvUser,      \* canView harness: the User argument
    cvNow,       \* canView harness: the value of time.Now() in the call
    cvResult,    \* canView harness: the Authorizations returned so far
    now,         \* the wall clock read by time.Now()
    fedora,      \* rightsMetadata datastream of every object id (ha.fedora)
    CurrentUser, \* ha.CurrentUser: TRUE when a resolver is configured, FALSE when nil
    dhAuth,      \* dh.Auth of the DownloadHandler: TRUE when set, FALSE when nil
    haHandler,   \* ha.Handler: TRUE when a target handler is set, FALSE when nil
    head,        \* timecache.head
    tail,        \* timecache.tail
    data,        \* timecache.data, indexed 0..len(data)-1
    last,        \* the last request handled and everything observed during it
    fetched,     \* history: when the rights record of each id was last fetched and cached
    pending,     \* the cache call each goroutine is in the middle of
    log,         \* history: the Adds the cache has performed, oldest first
    ss,          \* the StreamSeeker under test, its source and what it delivered
    hs           \* the HTTPSeeker under test, its origin and what it delivered

cvVars   == <<cvHr, cvUser, cvNow, cvResult>>
gateVars == <<now, fedora, CurrentUser, dhAuth, haHandler, head, tail, data, last, fetched>>
cacheVars == <<pending, log>>
seekVars  == <<ss, hs>>
vars     == <<cvHr, cvUser, cvNow, cvResult,
              now, fedora, CurrentUser, dhAuth, haHandler, head, tail, data, last,
              fetched, pending, log, ss, hs>>

---------------------------------------------------------------------------
(* Bounds *)

MaxGroups == 1   \* longest group list of a user
MaxTime   == 4   \* the clock runs from 1 to MaxTime
CacheSize == 1   \* the size argument of timecache.New (250 in NewHydraAuth)
Expires   == 2   \* the expires argument of timecache.New (5 minutes in NewHydraAuth)
MaxAccess == 2   \* most access blocks in a rightsMetadata document
EmbargoDay == 2  \* the instant the date of an embargoed document stands for
MaxAdds   == 3   \* most Add calls made on the cache of the cache specification
WordBits  == 4   \* the width the 64 bits of an int64 are scaled down to
MaxSrc    == 3   \* the length of the source a seeker wraps
MaxBuf    == 2   \* the longest buffer handed to Read
SweepTimeout == 3  \* the 5 minutes backgroundCleaner falls back on, in clock ticks
MaxTtl    == 120 \* expires handed to New runs over the multiples of 10ms up to 10ms * MaxTtl
MaxSweeps == 2   \* ticks of the sweeper's ticker that are followed

---------------------------------------------------------------------------
(* Authorization, src/auth/hydra_auth.go *)

AuthDeny     == 0
AuthAllow    == 1
AuthNotFound == 2
AuthError    == 3

\* The zero time.Time, the value of hydraRights.embargo when no embargo is set.
ZeroTime == 0

\* a.Before(b) and a.After(b) of time.Time
Before(a, b) == a < b
After(a, b)  == a > b

---------------------------------------------------------------------------
(* Membership helpers *)

RECURSIVE memberFrom(_, _, _)
memberFrom(a, list, i) ==
    IF i > Len(list) THEN FALSE
    ELSE IF a = list[i] THEN TRUE
    ELSE memberFrom(a, list, i + 1)

\* is string 'a' a member of string list 'list'?
member(a, list) == memberFrom(a, list, 1)

RECURSIVE incommonFrom(_, _, _)
incommonFrom(a, b, i) ==
    IF i > Len(a) THEN FALSE
    ELSE IF member(a[i], b) THEN TRUE
    ELSE incommonFrom(a, b, i + 1)

\* do lists 'a' and 'b' contain a member in common?
incommon(a, b) == incommonFrom(a, b, 1)

---------------------------------------------------------------------------
(* Rights model *)

\* The zero User is the anonymous user who belongs to no groups.
AnonUser == [Id |-> "", Groups |-> <<>>]

\* canView that leaves the editors out once the embargo is over
canView_EditorsOnlyInEmbargo(hr, user, t) ==
    IF hr.version # "0.1" THEN AuthError
    ELSE IF Before(t, hr.embargo) THEN
        IF member(user.Id, hr.editPeople) \/ incommon(user.Groups, hr.editGroups)
        THEN AuthAllow
        ELSE AuthDeny
    ELSE IF member("public", hr.readGroups)
        THEN AuthAllow
    ELSE IF user.Id # "" /\ member("registered", hr.readGroups)
        THEN AuthAllow
    ELSE IF incommon(user.Groups, hr.readGroups)
        THEN AuthAllow
    ELSE IF member(user.Id, hr.readPeople)
        THEN AuthAllow
    ELSE AuthDeny

\* canView without the test that the user id is non-empty
canView_RegisteredAnon(hr, user, t) ==
    IF hr.version # "0.1" THEN AuthError
    ELSE IF Before(t, hr.embargo) THEN
        IF member(user.Id, hr.editPeople) \/ incommon(user.Groups, hr.editGroups)
        THEN AuthAllow
        ELSE AuthDeny
    ELSE IF member("public", hr.readGroups) \/ member("public", hr.editGroups)
        THEN AuthAllow
    ELSE IF member("registered", hr.readGroups) \/ member("registered", hr.editGroups)
        THEN AuthAllow
    ELSE IF incommon(user.Groups, hr.readGroups) \/ incommon(user.Groups, hr.editGroups)
        THEN AuthAllow
    ELSE IF member(user.Id, hr.readPeople) \/ member(user.Id, hr.editPeople)
        THEN AuthAllow
    ELSE AuthDeny

\* canView with an embargo that readers pass as well
canView_EmbargoReaders(hr, user, t) ==
    IF hr.version # "0.1" THEN AuthError
    ELSE IF Before(t, hr.embargo) THEN
        IF member(user.Id, hr.editPeople) \/ incommon(user.Groups, hr.editGroups)
           \/ member(user.Id, hr.readPeople)
        THEN AuthAllow
        ELSE AuthDeny
    ELSE IF member("public", hr.readGroups) \/ member("public", hr.editGroups)
        THEN AuthAllow
    ELSE IF user.Id # ""
            /\ (member("registered", hr.readGroups) \/ member("registered", hr.editGroups))
        THEN AuthAllow
    ELSE IF incommon(user.Groups, hr.readGroups) \/ incommon(user.Groups, hr.editGroups)
        THEN AuthAllow
    ELSE IF member(user.Id, hr.readPeople) \/ member(user.Id, hr.editPeople)
        THEN AuthAllow
    ELSE AuthDeny

\* canView that answers Deny to a version it does not know
canView_VersionDeny(hr, user, t) ==
    IF hr.version # "0.1" THEN AuthDeny
    ELSE IF Before(t, hr.embargo) THEN
        IF member(user.Id, hr.editPeople) \/ incommon(user.Groups, hr.editGroups)
        THEN AuthAllow
        ELSE AuthDeny
    ELSE IF member("public", hr.readGroups) \/ member("public", hr.editGroups)
        THEN AuthAllow
    ELSE IF user.Id # ""
            /\ (member("registered", hr.readGroups) \/ member("registered", hr.editGroups))
        THEN AuthAllow
    ELSE IF incommon(user.Groups, hr.readGroups) \/ incommon(user.Groups, hr.editGroups)
        THEN AuthAllow
    ELSE IF member(user.Id, hr.readPeople) \/ member(user.Id, hr.editPeople)
        THEN AuthAllow
    ELSE AuthDeny

\* canView that looks the user's groups up in the people lists
canView_GroupsAsPeople(hr, user, t) ==
    IF hr.version # "0.1" THEN AuthError
    ELSE IF Before(t, hr.embargo) THEN
        IF member(user.Id, hr.editPeople) \/ incommon(user.Groups, hr.editGroups)
        THEN AuthAllow
        ELSE AuthDeny
    ELSE IF member("public", hr.readGroups) \/ member("public", hr.editGroups)
        THEN AuthAllow
    ELSE IF user.Id # ""
            /\ (member("registered", hr.readGroups) \/ member("registered", hr.editGroups))
        THEN AuthAllow
    ELSE IF incommon(user.Groups, hr.readPeople) \/ incommon(user.Groups, hr.editPeople)
        THEN AuthAllow
    ELSE IF member(user.Id, hr.readPeople) \/ member(user.Id, hr.editPeople)
        THEN AuthAllow
    ELSE AuthDeny

\* hydraRights.canView, with t the value of time.Now()
canView(hr, user, t) ==
    IF hr.version # "0.1" THEN AuthError
    ELSE IF Before(t, hr.embargo) THEN
        \* only edit people can view
        IF member(user.Id, hr.editPeople) \/ incommon(user.Groups, hr.editGroups)
        THEN AuthAllow
        ELSE AuthDeny
    ELSE IF member("public", hr.readGroups) \/ member("public", hr.editGroups)
        THEN AuthAllow
    ELSE IF user.Id # ""
            /\ (member("registered", hr.readGroups) \/ member("registered", hr.editGroups))
        THEN AuthAllow
    ELSE IF incommon(user.Groups, hr.readGroups) \/ incommon(user.Groups, hr.editGroups)
        THEN AuthAllow
    ELSE IF member(user.Id, hr.readPeople) \/ member(user.Id, hr.editPeople)
        THEN AuthAllow
    ELSE AuthDeny


---------------------------------------------------------------------------
(* Rights documents and their decoding (HydraAuth.getRights) *)

\* time.Parse("2006-01-02", s): the one well-formed date of the model stands for
\* EmbargoDay; for anything else Parse returns the zero time and an error.
timeParse(s) ==
    IF s = "2006-01-02" THEN [t |-> EmbargoDay, err |-> FALSE]
    ELSE [t |-> ZeroTime, err |-> TRUE]

\* one iteration of the loop over rights.Access
appendAccess(result, acc) ==
    CASE acc.Kind = "read" ->
            [result EXCEPT !.readGroups = @ \o acc.Groups,
                           !.readPeople = @ \o acc.People]
      [] acc.Kind = "edit" ->
            [result EXCEPT !.editGroups = @ \o acc.Groups,
                           !.editPeople = @ \o acc.People]
      [] OTHER -> result

RECURSIVE decodeAccess(_, _, _)
decodeAccess(result, access, i) ==
    IF i > Len(access) THEN result
    ELSE decodeAccess(appendAccess(result, access[i]), access, i + 1)

\* the hydraRights that getRights builds from a decoded rightsMetadata
newHydraRights(rights) ==
    LET r0 == [readGroups |-> <<>>, readPeople |-> <<>>,
               editGroups |-> <<>>, editPeople |-> <<>>,
               embargo |-> ZeroTime, version |-> rights.Version]
        r1 == decodeAccess(r0, rights.Access, 1)
    IN  IF rights.Embargo # ""
        THEN [r1 EXCEPT !.embargo = timeParse(rights.Embargo).t]
        ELSE r1

---------------------------------------------------------------------------
(* Inputs *)

GroupNames  == {"public", "registered", "a", "g"}
PeopleNames == {"", "a", "g"}
Kinds       == {"read", "edit", "discover"}
Versions    == {"0.1", "0.2"}
Embargoes   == {"", "2006-01-02", "next tuesday"}

\* an access block naming one person or one group
AccessBlocks ==
    {[Kind |-> k, People |-> <<p>>, Groups |-> <<>>] : k \in Kinds, p \in PeopleNames}
    \cup
    {[Kind |-> k, People |-> <<>>, Groups |-> <<g>>] : k \in Kinds, g \in GroupNames}

SeqsUpTo(S, n) == UNION {[1..k -> S] : k \in 0..n}

\* the rightsMetadata documents that decode
RightsDocs ==
    {[Version |-> v, Access |-> a, Embargo |-> e] :
        v \in Versions, a \in SeqsUpTo(AccessBlocks, MaxAccess), e \in Embargoes}

\* the users a resolver may return; the zero User is among them
Users ==
    {[Id |-> i, Groups |-> gs] : i \in {"", "a"}, gs \in SeqsUpTo({"a", "g"}, MaxGroups)}

---------------------------------------------------------------------------
(* Specification SpecCanView: canView applied to a rights record and a user *)

CanViewInit ==
    /\ cvHr \in {newHydraRights(d) : d \in RightsDocs}
    /\ cvUser \in Users
    /\ cvNow \in {EmbargoDay - 1, EmbargoDay, EmbargoDay + 1}
    /\ cvResult = <<>>

\* a := hr.canView(u)
CanViewCall ==
    /\ cvResult = <<>>
    /\ cvResult' = <<canView(cvHr, cvUser, cvNow)>>
    /\ UNCHANGED <<cvHr, cvUser, cvNow>>


---------------------------------------------------------------------------
(* Time-bounded cache, src/timecache/timecache.go *)

\* a nil pointer or nil interface value
Nil == [nil |-> TRUE]

\* errors; NoErr is a nil error
NoErr == ""
ErrNotFound == "not found"

\* len(tc.data)
DataLen == Cardinality(DOMAIN data)

\* the zero entry of a freshly made data slice
ZeroEntry == [key |-> "", t |-> ZeroTime, val |-> Nil]

\* tc.data as New(size, expires) makes it: size+1 zero entries
New(size) == [i \in 0..size |-> ZeroEntry]

advance(i) == IF i + 1 >= DataLen THEN 0 ELSE i + 1

RECURSIVE GetFrom(_, _, _, _, _)
GetFrom(d, h, i, key, t) ==
    IF i = h THEN [v |-> Nil, err |-> ErrNotFound]
    ELSE IF key = d[i].key /\ Before(t, d[i].t) THEN [v |-> d[i].val, err |-> NoErr]
    ELSE GetFrom(d, h, advance(i), key, t)

\* the loop of prune under the write lock, from index i: the new tail
RECURSIVE pruneFrom(_, _, _, _)
pruneFrom(d, h, i, t) ==
    IF i = h THEN i
    ELSE IF Before(t, d[i].t) THEN i
    ELSE pruneFrom(d, h, advance(i), t)

\* Get that also drops the expired entries it meets at the tail
Get_PruneOnRead(d, h, tl, key, t) ==
    GetFrom(d, h, tl, key, t) @@ [data |-> d, head |-> h, tail |-> pruneFrom(d, h, tl, t)]

\* Get that returns the first entry with the key, expired or not
Get_NoExpiry(d, h, tl, key, t) ==
    GetFrom(d, h, tl, key, ZeroTime - 1) @@ [data |-> d, head |-> h, tail |-> tl]

RECURSIVE GetLastFrom(_, _, _, _, _, _)
GetLastFrom(d, h, i, key, t, best) ==
    IF i = h THEN best
    ELSE GetLastFrom(d, h, advance(i), key, t,
                     IF key = d[i].key /\ Before(t, d[i].t)
                     THEN [v |-> d[i].val, err |-> NoErr] ELSE best)

\* Get that returns the newest unexpired entry with the key
Get_Newest(d, h, tl, key, t) ==
    GetLastFrom(d, h, tl, key, t, [v |-> Nil, err |-> ErrNotFound])
    @@ [data |-> d, head |-> h, tail |-> tl]

\* timecache.Get on the cache <<d, h, tl>> at time t: what it returns (v, err)
\* and the cache after the call (data, head, tail), which Get only reads
Get(d, h, tl, key, t) ==
    GetFrom(d, h, tl, key, t) @@ [data |-> d, head |-> h, tail |-> tl]

\* Add that does not make room when the buffer is full
Add_NoEvict(d, h, tl, key, value, t) ==
    [data |-> [d EXCEPT ![h] = [key |-> key, t |-> t + Expires, val |-> value]],
     head |-> advance(h),
     tail |-> tl]

\* timecache.Add on the cache <<d, h, tl>> at time t: the cache after the call
Add(d, h, tl, key, value, t) ==
    LET newHead == advance(h)
    IN  [data |-> [d EXCEPT ![h] = [key |-> key, t |-> t + Expires, val |-> value]],
         head |-> newHead,
         tail |-> IF newHead = tl THEN advance(tl) ELSE tl]

\* a peek that never finds anything to prune
needPrune_Never(d, h, tl, t) == FALSE

\* the peek of prune under the read lock: is the tail entry to be pruned
needPrune(d, h, tl, t) ==
    IF h = tl THEN FALSE
    ELSE After(t, d[tl].t)

\* timecache.prune on the cache <<d, h, tl>> at time t when nothing else runs
\* between its peek and its update: the tail after the call
prune(d, h, tl, t) ==
    IF ~needPrune(d, h, tl, t) THEN tl
    ELSE pruneFrom(d, h, tl, t)

\* the goroutines that use one cache: two callers and the backgroundCleaner.
\* Both callers Add; Get only reads under the shared lock, so one of them
\* calling Get shows every Get beside concurrent Adds and sweeps.
Callers  == {"c1", "c2"}
Getters  == {"c2"}
Sweeper  == "sweeper"
Idle     == [op |-> "idle"]
NoCalls  == [p \in Callers \cup {Sweeper} |-> Idle]

\* the variables of the cache specification while another specification runs
IdleCache == pending = NoCalls /\ log = <<>>

\* the variables of the seeker specifications while another specification runs
IdleSeekers == ss = Nil /\ hs = Nil

---------------------------------------------------------------------------
(* Authorization gate, src/auth/hydra_auth.go *)

Ids == {"i1", "i2"}

\* What fedora.GetDatastream(id, "rightsMetadata") gives: an error, a body that
\* does not decode, or a rightsMetadata document.
FetchError == [fail |-> "GetDatastream"]
Garbled    == [fail |-> "Decode"]

\* ha.fedora.GetDatastream(id, "rightsMetadata"): an object the store does not
\* hold is an error
GetDatastream(store, id) == IF id \in DOMAIN store THEN store[id] ELSE FetchError

\* getRights that does not look in the cache
getRights_NoCache(store, d, h, tl, id, t) ==
    LET same == [data |-> d, head |-> h, tail |-> tl]
    IN  IF GetDatastream(store, id) \in {FetchError, Garbled}
        THEN [rights |-> Nil, hit |-> FALSE, fetches |-> 1] @@ same
        ELSE LET result == newHydraRights(GetDatastream(store, id))
             IN  [rights |-> result, hit |-> FALSE, fetches |-> 1]
                 @@ Add(d, h, tl, id, result, t)

\* getRights that goes on with the zero rightsMetadata when Decode fails
getRights_IgnoreDecodeError(store, d, h, tl, id, t) ==
    LET got  == Get(d, h, tl, id, t)
        same == [data |-> d, head |-> h, tail |-> tl]
    IN  IF got.err = NoErr
        THEN [rights |-> got.v, hit |-> TRUE, fetches |-> 0] @@ same
        ELSE IF GetDatastream(store, id) = FetchError
        THEN [rights |-> Nil, hit |-> FALSE, fetches |-> 1] @@ same
        ELSE LET result == IF GetDatastream(store, id) = Garbled
                           THEN newHydraRights([Version |-> "", Access |-> <<>>, Embargo |-> ""])
                           ELSE newHydraRights(GetDatastream(store, id))
             IN  [rights |-> result, hit |-> FALSE, fetches |-> 1]
                 @@ Add(d, h, tl, id, result, t)

\* HydraAuth.getRights(id) on the cache <<d, h, tl>> at time t.  rights is the
\* *hydraRights returned (Nil for nil); fetches counts the GetDatastream calls;
\* data, head and tail are the cache after the call.
getRights(store, d, h, tl, id, t) ==
    LET got  == Get(d, h, tl, id, t)
        same == [data |-> d, head |-> h, tail |-> tl]
    IN  IF got.err = NoErr
        THEN [rights |-> got.v, hit |-> TRUE, fetches |-> 0] @@ same
        ELSE IF GetDatastream(store, id) = FetchError
        THEN [rights |-> Nil, hit |-> FALSE, fetches |-> 1] @@ same
        ELSE IF GetDatastream(store, id) = Garbled
        THEN [rights |-> Nil, hit |-> FALSE, fetches |-> 1] @@ same
        ELSE LET result == newHydraRights(GetDatastream(store, id))
             IN  [rights |-> result, hit |-> FALSE, fetches |-> 1]
                 @@ Add(d, h, tl, id, result, t)

\* fetched after a getRights(id) at time t that returned g: a record that was
\* fetched, decoded and added to the cache is noted with the time of the call
noteFetch(f, g, id, t) ==
    IF g.fetches = 1 /\ g.rights # Nil THEN [f EXCEPT ![id] = t] ELSE f

NeverFetched == [i \in Ids |-> ZeroTime]

\* The admin allow-list of the specification's gate.  HydraAuth has no such field
\* and Check reads no such list.
Admin == <<"g">>

\* decide that resolves the user before it looks whether the item is public
decide_ResolveFirst(rights, resolver, u, t) ==
    IF rights = Nil THEN [result |-> AuthNotFound, userCalls |-> 0]
    ELSE IF ~resolver
    THEN [result |-> IF canView(rights, AnonUser, t) = AuthAllow THEN AuthAllow ELSE AuthDeny,
          userCalls |-> 0]
    ELSE IF canView(rights, AnonUser, t) = AuthAllow
    THEN [result |-> AuthAllow, userCalls |-> 1]
    ELSE [result |-> canView(rights, u, t), userCalls |-> 1]

\* decide with an admin override after the user is resolved
decide_AdminOverride(rights, resolver, u, t) ==
    IF rights = Nil THEN [result |-> AuthNotFound, userCalls |-> 0]
    ELSE IF canView(rights, AnonUser, t) = AuthAllow
    THEN [result |-> AuthAllow, userCalls |-> 0]
    ELSE IF ~resolver THEN [result |-> AuthDeny, userCalls |-> 0]
    ELSE IF member(u.Id, Admin) \/ incommon(u.Groups, Admin)
    THEN [result |-> AuthAllow, userCalls |-> 1]
    ELSE [result |-> canView(rights, u, t), userCalls |-> 1]

\* decide that does not look whether a resolver is configured
decide_NoResolverTest(rights, resolver, u, t) ==
    IF rights = Nil THEN [result |-> AuthNotFound, userCalls |-> 0]
    ELSE IF canView(rights, AnonUser, t) = AuthAllow
    THEN [result |-> AuthAllow, userCalls |-> 0]
    ELSE [result |-> canView(rights, u, t), userCalls |-> IF resolver THEN 1 ELSE 0]

\* The decision part of HydraAuth.Check, after getRights returned rights.
\* resolver is ha.CurrentUser # nil and u is what ha.CurrentUser.User(r) would
\* return; userCalls counts the calls of ha.CurrentUser.User.
decide(rights, resolver, u, t) ==
    IF rights = Nil THEN [result |-> AuthNotFound, userCalls |-> 0]
    ELSE IF canView(rights, AnonUser, t) = AuthAllow
    THEN [result |-> AuthAllow, userCalls |-> 0]
    ELSE IF ~resolver THEN [result |-> AuthDeny, userCalls |-> 0]
    ELSE [result |-> canView(rights, u, t), userCalls |-> 1]

\* HydraAuth.Check(r, id), where u is the user the request r resolves to
Check(store, d, h, tl, resolver, id, u, t) ==
    LET g == getRights(store, d, h, tl, id, t)
    IN  g @@ decide(g.rights, resolver, u, t)


---------------------------------------------------------------------------
(* The gate's state machine *)

Doc(v, access, e) == [Version |-> v, Access |-> access, Embargo |-> e]
Person(k, p) == [Kind |-> k, People |-> <<p>>, Groups |-> <<>>]
Group(k, g)  == [Kind |-> k, People |-> <<>>, Groups |-> <<g>>]

PublicDoc     == Doc("0.1", <<Group("read", "public")>>, "")
PrivateDoc    == Doc("0.1", <<Person("read", "a"), Group("edit", "g")>>, "")
RegisteredDoc == Doc("0.1", <<Group("read", "registered")>>, "")
EmbargoedDoc  == Doc("0.1", <<Group("read", "public"), Person("edit", "a")>>, "2006-01-02")
OtherVersion  == Doc("0.2", <<Group("read", "public"), Person("read", "a")>>, "")
BadEmbargoDoc == Doc("0.1", <<Person("read", "a")>>, "next tuesday")
NoNameDoc     == Doc("0.1", <<Person("read", "")>>, "")

\* what the object store may hold as the rightsMetadata of an object
GateDocs ==
    {PublicDoc, PrivateDoc, RegisteredDoc, EmbargoedDoc, OtherVersion,
     BadEmbargoDoc, NoNameDoc, FetchError, Garbled}

NoRequest == "none"

\* last: nothing handled yet
NoLast ==
    [op |-> NoRequest, id |-> "", user |-> AnonUser, checked |-> FALSE,
     result |-> AuthDeny, rights |-> Nil, hit |-> FALSE, fetches |-> 0,
     userCalls |-> 0, at |-> 0, routed |-> FALSE, status |-> 0, calls |-> <<>>]

\* timecache.New(size, expires) and the HydraAuth around it
GateInit ==
    /\ now = 1
    /\ fedora \in {[i \in Ids |-> IF i = "i1" THEN d1 ELSE d2] :
                      d1 \in GateDocs, d2 \in {PrivateDoc, FetchError}}
    /\ CurrentUser \in BOOLEAN
    /\ head = 0
    /\ tail = 0
    /\ data = New(CacheSize)
    /\ last = NoLast
    /\ fetched = NeverFetched

\* the clock advances
Tick ==
    /\ now < MaxTime
    /\ now' = now + 1
    /\ UNCHANGED <<fedora, CurrentUser, dhAuth, haHandler, head, tail, data, last, fetched>>

\* backgroundCleaner: the ticker fires and prune runs
Sweep ==
    /\ tail' = prune(data, head, tail, now)
    /\ UNCHANGED <<now, fedora, CurrentUser, dhAuth, haHandler, head, data, last, fetched>>

\* a caller's own handler calls ha.Check(r, id)
CheckCall ==
    \E id \in Ids, u \in Users :
        \E c \in {Check(fedora, data, head, tail, CurrentUser, id, u, now)} :
            /\ data' = c.data
            /\ head' = c.head
            /\ tail' = c.tail
            /\ last' = [op |-> "Check", id |-> id, user |-> u, checked |-> TRUE,
                        result |-> c.result, rights |-> c.rights, hit |-> c.hit,
                        fetches |-> c.fetches, userCalls |-> c.userCalls,
                        at |-> now, routed |-> FALSE, status |-> 0, calls |-> <<>>]
            /\ fetched' = noteFetch(fetched, c, id, now)
            /\ UNCHANGED <<now, fedora, CurrentUser, dhAuth, haHandler>>

Init ==
    /\ GateInit
    /\ dhAuth = TRUE
    /\ haHandler = TRUE
    /\ cvHr = Nil /\ cvUser = AnonUser /\ cvNow = 0 /\ cvResult = <<>>
    /\ IdleCache
    /\ IdleSeekers

Next ==
    \/ (Tick /\ UNCHANGED <<cvVars, cacheVars, seekVars>>)
    \/ (Sweep /\ UNCHANGED <<cvVars, cacheVars, seekVars>>)
    \/ (CheckCall /\ UNCHANGED <<cvVars, cacheVars, seekVars>>)

Spec == Init /\ [][Next]_vars

---------------------------------------------------------------------------
(* Specification SpecCanView *)

InitCanView ==
    /\ CanViewInit
    /\ IdleCache
    /\ IdleSeekers
    /\ now = 1
    /\ fedora = [i \in Ids |-> FetchError]
    /\ CurrentUser = FALSE /\ dhAuth = FALSE /\ haHandler = FALSE
    /\ head = 0 /\ tail = 0
    /\ data = New(CacheSize)
    /\ last = NoLast
    /\ fetched = NeverFetched

NextCanView == CanViewCall /\ UNCHANGED <<gateVars, cacheVars, seekVars>>

SpecCanView == InitCanView /\ [][NextCanView]_vars


---------------------------------------------------------------------------
(* HTTP entry points, src/download.go and src/auth/hydra_auth.go *)

StatusOK                  == 200
StatusNotModified         == 304
StatusUnauthorized        == 401
StatusNotFound            == 404
StatusMethodNotAllowed    == 405
StatusInternalServerError == 500

\* the longest identifier DownloadHandler.ServeHTTP accepts
MaxIdLen == 64

\* an identifier of 65 characters
LongId == "i0000000000000000000000000000000000000000000000000000000000000000"

\* A URL path is modelled by its segments, the path split at every "/":
\* "/i1/zip/..." is <<"", "i1", "zip", ...>>.
TrimPrefix(segs) == IF Len(segs) >= 2 /\ segs[1] = "" THEN Tail(segs) ELSE segs
TrimSuffix(segs) ==
    IF Len(segs) >= 2 /\ segs[Len(segs)] = "" THEN SubSeq(segs, 1, Len(segs) - 1) ELSE segs

\* FirstPathElement, the default IdExtractor
FirstPathElement(segs) == TrimPrefix(segs)[1]

\* the switch without the return after a denial: the request goes on
downloadSwitch_DenyServed(a) ==
    CASE a = AuthNotFound -> StatusNotFound
      [] a = AuthAllow    -> 0
      [] a = AuthDeny     -> 0
      [] OTHER            -> StatusInternalServerError

\* the switch without its case for AuthNotFound
downloadSwitch_NoNotFound(a) ==
    CASE a = AuthDeny     -> StatusUnauthorized
      [] a = AuthAllow    -> 0
      [] OTHER            -> StatusInternalServerError

\* The switch on the gate's outcome in DownloadHandler.ServeHTTP: the status
\* written, or 0 when the request goes on to the routes.
downloadSwitch(a) ==
    CASE a = AuthDeny     -> StatusUnauthorized
      [] a = AuthNotFound -> StatusNotFound
      [] a = AuthAllow    -> 0
      [] OTHER            -> StatusInternalServerError

\* The switch on the gate's outcome in HydraAuth.ServeHTTP: the status written,
\* or 0 when the request is passed to ha.Handler.
hydraSwitch(a) ==
    CASE a = AuthDeny     -> StatusUnauthorized
      [] a = AuthNotFound -> StatusNotFound
      [] a = AuthAllow    -> 0
      [] OTHER            -> StatusInternalServerError

\* What the object store and the content origin answer for one object:
\* GetDatastreamInfo fails; the client's If-None-Match matches the version;
\* the content fetch reports not-found or another error; or content arrives.
Upstreams == {"info error", "etag match", "content not found", "content error", "content"}

\* downloadSingleFile: the status written and the upstream calls made.
\* bendo is dh.BendoToken # "" && dsinfo.LocationType == "URL".
downloadSingleFile(up, bendo) ==
    LET fetch == IF bendo THEN "getBendoContent" ELSE "GetDatastream"
    IN  CASE up = "info error" ->
                [status |-> StatusNotFound, calls |-> <<"GetDatastreamInfo">>]
          [] up = "etag match" ->
                [status |-> StatusNotModified, calls |-> <<"GetDatastreamInfo">>]
          [] up = "content not found" ->
                [status |-> StatusNotFound, calls |-> <<"GetDatastreamInfo", fetch>>]
          [] up = "content error" ->
                [status |-> StatusInternalServerError,
                 calls |-> <<"GetDatastreamInfo", fetch>>]
          [] OTHER ->
                \* io.Copy or http.ServeContent writes the body
                [status |-> StatusOK, calls |-> <<"GetDatastreamInfo", fetch>>]

\* downloadZip for a list of one pid: the status written and the upstream calls
\* made.  A failed content fetch returns a nil ReadCloser, and the
\* defer content.Close() ahead of the error check panics on it; the deferred
\* zipWriter.Close() then writes the end of the archive with the implicit 200.
downloadZip(method, up, bendo) ==
    LET fetch == IF bendo THEN "getBendoContent" ELSE "GetDatastream"
    IN  IF method = "HEAD"
        THEN [status |-> StatusMethodNotAllowed, calls |-> <<>>]
        ELSE IF up = "info error"
        THEN [status |-> StatusNotFound, calls |-> <<"GetDatastreamInfo">>]
        ELSE [status |-> StatusOK, calls |-> <<"GetDatastreamInfo", fetch>>]

\* the routes of DownloadHandler.ServeHTTP, for the components of the path
route(method, components, up, bendo) ==
    IF Len(components) = 1 THEN downloadSingleFile(up, bendo)
    ELSE IF Len(components) = 3 /\ components[2] = "zip"
    THEN downloadZip(method, up, bendo)
    ELSE [status |-> StatusMethodNotAllowed, calls |-> <<>>]

RECURSIVE Join(_)
Join(segs) ==
    IF Len(segs) = 0 THEN ""
    ELSE IF Len(segs) = 1 THEN segs[1]
    ELSE segs[1] \o "/" \o Join(Tail(segs))

\* strings.SplitN(path, "/", 3): everything after the second "/" stays in the
\* third component
SplitN3(segs) ==
    IF Len(segs) <= 2 THEN segs
    ELSE <<segs[1], segs[2], Join(SubSeq(segs, 3, Len(segs)))>>

\* the switch of DownloadHandler.ServeHTTP applied to what Check returned
withStatus(c) == [status |-> downloadSwitch(c.result)] @@ c

\* DownloadHandler.ServeHTTP up to the routes (dh.Prefix is ""): auth is
\* dh.Auth # nil.  The result carries what Check returned and did, and the
\* status written, or status 0 when the request goes on to the routes.
DownloadAuth(store, d, h, tl, auth, resolver, method, segs, u, t) ==
    LET components == SplitN3(TrimSuffix(TrimPrefix(segs)))
        pid == components[1]
        idle == [checked |-> FALSE, result |-> AuthDeny, rights |-> Nil, hit |-> FALSE,
                 fetches |-> 0, userCalls |-> 0, data |-> d, head |-> h, tail |-> tl]
    IN  IF method # "GET" /\ method # "HEAD"
        THEN [id |-> "", status |-> StatusMethodNotAllowed] @@ idle
        ELSE IF Len(pid) = 0 \/ Len(pid) > MaxIdLen
        THEN [id |-> "", status |-> StatusNotFound] @@ idle
        ELSE IF auth
        THEN withStatus([id |-> pid, checked |-> TRUE]
                        @@ Check(store, d, h, tl, resolver, pid, u, t))
        ELSE [id |-> pid, status |-> 0] @@ idle

\* HydraAuth.ServeHTTP with the default IdExtractor: handler is ha.Handler # nil.
\* A request passed on is answered by ha.Handler, which the model lets answer 200.
HydraServe(store, d, h, tl, handler, resolver, segs, u, t) ==
    LET id == FirstPathElement(segs)
        idle == [checked |-> FALSE, result |-> AuthDeny, rights |-> Nil, hit |-> FALSE,
                 fetches |-> 0, userCalls |-> 0, data |-> d, head |-> h, tail |-> tl]
    IN  IF ~handler
        THEN [id |-> "", routed |-> FALSE, status |-> StatusNotFound, calls |-> <<>>] @@ idle
        ELSE LET c == Check(store, d, h, tl, resolver, id, u, t)
                 st == hydraSwitch(c.result)
             IN  IF st # 0
                 THEN [id |-> id, checked |-> TRUE, routed |-> FALSE,
                       status |-> st, calls |-> <<>>] @@ c
                 ELSE [id |-> id, checked |-> TRUE, routed |-> TRUE,
                       status |-> StatusOK, calls |-> <<"Handler.ServeHTTP">>] @@ c


---------------------------------------------------------------------------
(* Specification SpecServe: requests through the two HTTP entry points *)

Methods == {"GET", "HEAD", "POST"}

\* the request paths: "/", "/i1", "/i2", "/i1/", "/i1/zip/i2", "/i1/zip/i2/x",
\* "/i2/thumb", "/i1/files/i2" and an identifier that is too long
Paths ==
    {<<"", "">>, <<"", LongId>>, <<"", "i1">>, <<"", "i2">>,
     <<"", "i1", "">>, <<"", "i1", "zip", "i2">>, <<"", "i1", "zip", "i2", "x">>,
     <<"", "i2", "thumb">>, <<"", "i1", "files", "i2">>}

\* the users the requests of this specification resolve to
ServeUsers == {AnonUser, [Id |-> "a", Groups |-> <<>>], [Id |-> "", Groups |-> <<"g">>]}

ServeInit ==
    /\ now = 1
    /\ fedora \in {[i \in Ids |-> IF i = "i1" THEN d1 ELSE PrivateDoc] :
                      d1 \in {PublicDoc, PrivateDoc, OtherVersion, FetchError}}
    /\ CurrentUser \in BOOLEAN
    /\ dhAuth \in BOOLEAN
    /\ haHandler = dhAuth
    /\ head = 0
    /\ tail = 0
    /\ data = New(CacheSize)
    /\ last = NoLast
    /\ fetched = NeverFetched

\* A request arrives at the DownloadHandler.  The object store and the content
\* origin answer only the requests that reach a route.
DownloadServeHTTP ==
    \E method \in Methods, segs \in Paths, u \in ServeUsers :
        \E r \in {DownloadAuth(fedora, data, head, tail, dhAuth, CurrentUser,
                               method, segs, u, now)} :
            \E up \in IF r.status = 0 THEN Upstreams ELSE {"content"},
               bendo \in IF r.status = 0 THEN BOOLEAN ELSE {FALSE} :
                \E w \in {IF r.status = 0
                          THEN route(method, SplitN3(TrimSuffix(TrimPrefix(segs))), up, bendo)
                          ELSE [status |-> r.status, calls |-> <<>>]} :
                    /\ data' = r.data
                    /\ head' = r.head
                    /\ tail' = r.tail
                    /\ last' = [op |-> "DownloadHandler", id |-> r.id,
                                user |-> IF r.userCalls > 0 THEN u ELSE AnonUser,
                                checked |-> r.checked, result |-> r.result,
                                rights |-> r.rights, hit |-> r.hit,
                                fetches |-> r.fetches, userCalls |-> r.userCalls,
                                at |-> now, routed |-> (r.status = 0),
                                status |-> w.status, calls |-> w.calls]
                    /\ fetched' = noteFetch(fetched, r, r.id, now)
                    /\ UNCHANGED <<now, fedora, CurrentUser, dhAuth, haHandler>>

\* a request arrives at a HydraAuth used as a wrapping handler
HydraServeHTTP ==
    \E segs \in Paths, u \in ServeUsers :
        \E r \in {HydraServe(fedora, data, head, tail, haHandler, CurrentUser, segs, u, now)} :
            /\ data' = r.data
            /\ head' = r.head
            /\ tail' = r.tail
            /\ last' = [op |-> "HydraAuth", id |-> r.id,
                        user |-> IF r.userCalls > 0 THEN u ELSE AnonUser,
                        checked |-> r.checked, result |-> r.result, rights |-> r.rights,
                        hit |-> r.hit, fetches |-> r.fetches, userCalls |-> r.userCalls,
                        at |-> now, routed |-> r.routed,
                        status |-> r.status, calls |-> r.calls]
            /\ fetched' = noteFetch(fetched, r, r.id, now)
            /\ UNCHANGED <<now, fedora, CurrentUser, dhAuth, haHandler>>

InitServe ==
    /\ ServeInit
    /\ cvHr = Nil /\ cvUser = AnonUser /\ cvNow = 0 /\ cvResult = <<>>
    /\ IdleCache
    /\ IdleSeekers

NextServe ==
    \/ (Tick /\ UNCHANGED <<cvVars, cacheVars, seekVars>>)
    \/ (Sweep /\ UNCHANGED <<cvVars, cacheVars, seekVars>>)
    \/ (DownloadServeHTTP /\ UNCHANGED <<cvVars, cacheVars, seekVars>>)
    \/ (HydraServeHTTP /\ UNCHANGED <<cvVars, cacheVars, seekVars>>)

SpecServe == InitServe /\ [][NextServe]_vars


---------------------------------------------------------------------------
(* Specification SpecCache: one timecache used by concurrent goroutines.     *)
(* Get and Add read the clock before they take the lock, and prune gives up  *)
(* the read lock before it takes the write lock, so each call is two steps:  *)
(* the call begins (the clock is read), and later its locked section runs.   *)

Keys == {"a", "b"}

\* the size of the cache of this specification: timecache.New(TestSize, Expires)
TestSize == CacheSize + 1

\* the cache as a record
cacheNow == [data |-> data, head |-> head, tail |-> tail]

\* the Adds begun so far, finished or not
addsBegun ==
    Len(log) + Cardinality({p \in Callers : pending[p].op = "Add"})

CacheInit ==
    /\ now = 1
    /\ head = 0
    /\ tail = 0
    /\ data = New(TestSize)
    /\ pending = NoCalls
    /\ log = <<>>
    /\ last = [op |-> NoRequest]

\* a goroutine calls tc.Get(key): time.Now() is read
GetBegin(p) ==
    /\ p \in Getters
    /\ pending[p] = Idle
    /\ \E key \in Keys :
           pending' = [pending EXCEPT ![p] = [op |-> "Get", key |-> key, now |-> now]]
    /\ UNCHANGED <<now, head, tail, data, log, last>>

\* the rest of tc.Get, under the read lock
GetLocked(p) ==
    /\ pending[p].op = "Get"
    /\ \E r \in {Get(data, head, tail, pending[p].key, pending[p].now)} :
           /\ data' = r.data
           /\ head' = r.head
           /\ tail' = r.tail
           /\ last' = [op |-> "Get", key |-> pending[p].key, at |-> pending[p].now,
                       done |-> now, v |-> r.v, err |-> r.err, pre |-> cacheNow,
                       post |-> [data |-> r.data, head |-> r.head, tail |-> r.tail]]
    /\ pending' = [pending EXCEPT ![p] = Idle]
    /\ UNCHANGED <<now, log>>

\* a goroutine calls tc.Add(key, value): time.Now() is read.  The values are
\* numbered in the order of the calls, as the mycount values of the tests are.
AddBegin(p) ==
    /\ pending[p] = Idle
    /\ addsBegun < MaxAdds
    /\ \E key \in Keys :
           pending' = [pending EXCEPT ![p] = [op |-> "Add", key |-> key, now |-> now,
                                              val |-> [n |-> addsBegun + 1]]]
    /\ UNCHANGED <<now, head, tail, data, log, last>>

\* the rest of tc.Add, under the write lock
AddLocked(p) ==
    /\ pending[p].op = "Add"
    /\ \E r \in {Add(data, head, tail, pending[p].key, pending[p].val, pending[p].now)} :
           /\ data' = r.data
           /\ head' = r.head
           /\ tail' = r.tail
           /\ last' = [op |-> "Add", key |-> pending[p].key, at |-> pending[p].now,
                       done |-> now, v |-> pending[p].val, err |-> NoErr, pre |-> cacheNow,
                       post |-> [data |-> r.data, head |-> r.head, tail |-> r.tail]]
    /\ log' = Append(log, [key |-> pending[p].key, val |-> pending[p].val,
                           at |-> pending[p].now])
    /\ pending' = [pending EXCEPT ![p] = Idle]
    /\ UNCHANGED now

\* the ticker of backgroundCleaner fires and prune peeks at the tail under the
\* read lock; it returns when there is nothing to prune.  last.err of a prune
\* tells where it returned: "peek" after the peek, "locked" after the update.
PrunePeek ==
    /\ pending[Sweeper] = Idle
    /\ IF needPrune(data, head, tail, now)
       THEN /\ pending' = [pending EXCEPT ![Sweeper] = [op |-> "prune", now |-> now]]
            /\ UNCHANGED last
       ELSE /\ last' = [op |-> "prune", key |-> "", at |-> now, done |-> now, v |-> Nil,
                        err |-> "peek", pre |-> cacheNow, post |-> cacheNow]
            /\ UNCHANGED pending
    /\ UNCHANGED <<now, head, tail, data, log>>

\* the rest of prune, under the write lock
PruneLocked ==
    /\ pending[Sweeper].op = "prune"
    /\ tail' = pruneFrom(data, head, tail, pending[Sweeper].now)
    /\ last' = [op |-> "prune", key |-> "", at |-> pending[Sweeper].now, done |-> now,
                v |-> Nil, err |-> "locked", pre |-> cacheNow,
                post |-> [data |-> data, head |-> head, tail |-> tail']]
    /\ pending' = [pending EXCEPT ![Sweeper] = Idle]
    /\ UNCHANGED <<now, head, data, log>>

\* the clock advances
CacheTick ==
    /\ now < MaxTime
    /\ now' = now + 1
    /\ UNCHANGED <<head, tail, data, pending, log, last>>

InitCache ==
    /\ CacheInit
    /\ fedora = [i \in Ids |-> FetchError]
    /\ CurrentUser = FALSE /\ dhAuth = FALSE /\ haHandler = FALSE
    /\ fetched = NeverFetched
    /\ cvHr = Nil /\ cvUser = AnonUser /\ cvNow = 0 /\ cvResult = <<>>
    /\ IdleSeekers

cacheIdleVars ==
    <<cvVars, seekVars, fedora, CurrentUser, dhAuth, haHandler, fetched>>

NextCache ==
    \/ (CacheTick /\ UNCHANGED cacheIdleVars)
    \/ (PrunePeek /\ UNCHANGED cacheIdleVars)
    \/ (PruneLocked /\ UNCHANGED cacheIdleVars)
    \/ \E p \in Callers :
        \/ (GetBegin(p) /\ UNCHANGED cacheIdleVars)
        \/ (GetLocked(p) /\ UNCHANGED cacheIdleVars)
        \/ (AddBegin(p) /\ UNCHANGED cacheIdleVars)
        \/ (AddLocked(p) /\ UNCHANGED cacheIdleVars)

SpecCache == InitCache /\ [][NextCache]_vars

\* the goroutines that Add and the sweeper, without the Gets, which change
\* nothing in the cache
NextCacheLive ==
    \/ (CacheTick /\ UNCHANGED cacheIdleVars)
    \/ (PrunePeek /\ UNCHANGED cacheIdleVars)
    \/ (PruneLocked /\ UNCHANGED cacheIdleVars)
    \/ \E p \in Callers :
        \/ (AddBegin(p) /\ UNCHANGED cacheIdleVars)
        \/ (AddLocked(p) /\ UNCHANGED cacheIdleVars)

\* Adds and sweeps with the ticker of backgroundCleaner firing again and again,
\* and a prune that has begun going on to its end
SpecCacheLive ==
    /\ InitCache
    /\ [][NextCacheLive]_vars
    /\ WF_vars(PrunePeek /\ UNCHANGED cacheIdleVars)
    /\ WF_vars(PruneLocked /\ UNCHANGED cacheIdleVars)

(***************************************************************************)
(* The cache whose sweeper schedules itself (the variant of the package in  *)
(* src/unnamed/part_013): prune returns a time, and backgroundCleaner       *)
(* computes from it how long to sleep before the next prune.  The sweeper   *)
(* is pending[Sweeper]: op "schedule" at the top of its loop, op "sleep"    *)
(* in the select, with the time wake at which time.After fires.             *)
(***************************************************************************)

RECURSIVE pruneLoop(_, _, _, _, _)
\* the loop of prune under the exclusive lock, from index i with the last
\* expiry read so far: the new tail and the expiry the loop ends with
pruneLoop(d, h, i, t, oldestTime) ==
    IF i = h THEN [tail |-> i, oldestTime |-> oldestTime]
    ELSE IF Before(t, d[i].t) THEN [tail |-> i, oldestTime |-> d[i].t]
    ELSE pruneLoop(d, h, advance(i), t, d[i].t)

\* prune of the variant on the cache <<d, h, tl>> at time t: the tail after the
\* call and the time returned
pruneOldest(d, h, tl, t) ==
    IF h = tl THEN [tail |-> tl, oldestTime |-> ZeroTime]
    ELSE IF Before(t, d[tl].t) THEN [tail |-> tl, oldestTime |-> d[tl].t]
    ELSE pruneLoop(d, h, tl, t, d[tl].t)

\* the timeout backgroundCleaner computes at time t from the nextTime of the
\* last prune
cleanerTimeout(nextTime, t) ==
    IF nextTime # ZeroTime /\ Before(nextTime, t) THEN nextTime - t
    ELSE SweepTimeout

SweepInit ==
    /\ now = 1
    /\ head = 0
    /\ tail = 0
    /\ data = New(TestSize)
    /\ pending = [NoCalls EXCEPT ![Sweeper] = [op |-> "schedule", nextTime |-> ZeroTime]]
    /\ log = <<>>
    /\ last = [op |-> NoRequest]

\* a goroutine calls tc.Add(key, value)
SweepAdd ==
    /\ Len(log) < MaxAdds
    /\ \E key \in Keys :
           \E r \in {Add(data, head, tail, key, [n |-> Len(log) + 1], now)} :
               /\ data' = r.data
               /\ head' = r.head
               /\ tail' = r.tail
               /\ log' = Append(log, [key |-> key, val |-> [n |-> Len(log) + 1],
                                      at |-> now])
    /\ UNCHANGED <<now, pending, last>>

\* backgroundCleaner at the top of its loop: the timeout of the select
CleanerSchedule ==
    /\ pending[Sweeper].op = "schedule"
    /\ pending' = [pending EXCEPT ![Sweeper] =
                       [op |-> "sleep", nextTime |-> pending[Sweeper].nextTime,
                        at |-> now,
                        wake |-> now + cleanerTimeout(pending[Sweeper].nextTime, now)]]
    /\ UNCHANGED <<now, head, tail, data, log, last>>

\* time.After(timeout) fires: nextTime = tc.prune()
CleanerPrune ==
    /\ pending[Sweeper].op = "sleep"
    /\ now >= pending[Sweeper].wake
    /\ \E r \in {pruneOldest(data, head, tail, now)} :
           /\ tail' = r.tail
           /\ last' = [op |-> "prune", at |-> now, oldestTime |-> r.oldestTime,
                       pre |-> cacheNow,
                       post |-> [data |-> data, head |-> head, tail |-> r.tail]]
           /\ pending' = [pending EXCEPT ![Sweeper] =
                              [op |-> "schedule", nextTime |-> r.oldestTime]]
    /\ UNCHANGED <<now, head, data, log>>

InitSweep ==
    /\ SweepInit
    /\ fedora = [i \in Ids |-> FetchError]
    /\ CurrentUser = FALSE /\ dhAuth = FALSE /\ haHandler = FALSE
    /\ fetched = NeverFetched
    /\ cvHr = Nil /\ cvUser = AnonUser /\ cvNow = 0 /\ cvResult = <<>>
    /\ IdleSeekers

NextSweep ==
    \/ (CacheTick /\ UNCHANGED cacheIdleVars)
    \/ (SweepAdd /\ UNCHANGED cacheIdleVars)
    \/ (CleanerSchedule /\ UNCHANGED cacheIdleVars)
    \/ (CleanerPrune /\ UNCHANGED cacheIdleVars)

SpecSweep == InitSweep /\ [][NextSweep]_vars

(***************************************************************************)
(* New and the ticker of its backgroundCleaner.  Time is in milliseconds   *)
(* here; expires is a multiple of 10ms, so that expires / 10 is exact.     *)
(***************************************************************************)

\* time.Millisecond and time.Second, in milliseconds
Millisecond == 1
Second      == 1000

\* the values of expires that New is called with: short ones around the
\* 30ms floor, and whole tens of seconds
Ttls ==
    {10 * Millisecond * k : k \in 0..MaxTtl} \cup {10 * Second * k : k \in 1..3}

\* the local variable period of New
sweepPeriod(expires) ==
    LET period == expires \div 10
    IN  IF period < 30 * Millisecond THEN 30 * Millisecond ELSE period

\* the period New hands to backgroundCleaner
cleanerPeriod(expires) == Second

\* before New(size, expires) is called: the arguments chosen
NewInit ==
    /\ now = 0
    /\ head = 0
    /\ tail = 0
    /\ data = <<>>
    /\ pending = NoCalls
    /\ log = <<>>
    /\ \E expires \in Ttls : last = [op |-> NoRequest, expires |-> expires]

\* New(TestSize, expires): the cache, and the goroutine backgroundCleaner
\* with its ticker
NewCall ==
    /\ last.op = NoRequest
    /\ data' = New(TestSize)
    /\ last' = [op |-> "New", expires |-> last.expires,
                period |-> sweepPeriod(last.expires)]
    /\ \E period \in {cleanerPeriod(last.expires)} :
           pending' = [pending EXCEPT ![Sweeper] =
                           [op |-> "ticker", period |-> period,
                            next |-> now + period, fired |-> 0]]
    /\ UNCHANGED <<now, head, tail, log>>

\* the ticker fires, one period after it last did: tc.prune()
TickerFire ==
    /\ pending[Sweeper].op = "ticker"
    /\ pending[Sweeper].fired < MaxSweeps
    /\ now' = pending[Sweeper].next
    /\ tail' = prune(data, head, tail, pending[Sweeper].next)
    /\ pending' = [pending EXCEPT ![Sweeper] =
                       [@ EXCEPT !.next = @ + pending[Sweeper].period,
                                 !.fired = @ + 1]]
    /\ last' = [last EXCEPT !.op = "prune"]
    /\ UNCHANGED <<head, data, log>>

InitNew ==
    /\ NewInit
    /\ fedora = [i \in Ids |-> FetchError]
    /\ CurrentUser = FALSE /\ dhAuth = FALSE /\ haHandler = FALSE
    /\ fetched = NeverFetched
    /\ cvHr = Nil /\ cvUser = AnonUser /\ cvNow = 0 /\ cvResult = <<>>
    /\ IdleSeekers

NextNew ==
    \/ (NewCall /\ UNCHANGED cacheIdleVars)
    \/ (TickerFire /\ UNCHANGED cacheIdleVars)

SpecNew == InitNew /\ [][NextNew]_vars

(***************************************************************************)
(* The cache with its sync.RWMutex drawn out.  Each call is three kinds of *)
(* steps: it reads the clock, it takes the lock (shared or exclusive), and *)
(* it runs the statements up to the Unlock or RUnlock that follows.  A     *)
(* goroutine that has read the clock carries lock = "none", "r" or "w".    *)
(***************************************************************************)

\* the lock goroutine p holds in pend
held(pend, p) == IF pend[p].op = "idle" THEN "none" ELSE pend[p].lock

\* tc.Lock() of goroutine p at once admitted as if it were tc.RLock()
Lock_Shared(pend, p) ==
    \A q \in DOMAIN pend : q # p => held(pend, q) # "w"

\* tc.Lock() of goroutine p returns: nobody else holds the lock
Lock(pend, p) ==
    \A q \in DOMAIN pend : q # p => held(pend, q) = "none"

\* tc.RLock() of goroutine p returns: nobody else holds the exclusive lock
RLock(pend, p) ==
    \A q \in DOMAIN pend : q # p => held(pend, q) # "w"

\* tc.Add(key, value): now := time.Now()
AddNow(p) ==
    /\ pending[p] = Idle
    /\ addsBegun < MaxAdds
    /\ \E key \in Keys :
           pending' = [pending EXCEPT ![p] = [op |-> "Add", key |-> key, now |-> now,
                                              val |-> [n |-> addsBegun + 1],
                                              lock |-> "none"]]
    /\ UNCHANGED <<now, head, tail, data, log, last>>

\* tc.Add: tc.Lock()
AddLock(p) ==
    /\ pending[p].op = "Add"
    /\ pending[p].lock = "none"
    /\ Lock(pending, p)
    /\ pending' = [pending EXCEPT ![p].lock = "w"]
    /\ UNCHANGED <<now, head, tail, data, log, last>>

\* tc.Add: the statements under the lock, up to tc.Unlock()
AddUnlock(p) ==
    /\ pending[p].op = "Add"
    /\ pending[p].lock = "w"
    /\ \E r \in {Add(data, head, tail, pending[p].key, pending[p].val, pending[p].now)} :
           /\ data' = r.data
           /\ head' = r.head
           /\ tail' = r.tail
    /\ log' = Append(log, [key |-> pending[p].key, val |-> pending[p].val,
                           at |-> pending[p].now])
    /\ pending' = [pending EXCEPT ![p] = Idle]
    /\ UNCHANGED <<now, last>>

\* tc.Get(key): now = time.Now()
GetNow(p) ==
    /\ p \in Getters
    /\ pending[p] = Idle
    /\ \E key \in Keys :
           pending' = [pending EXCEPT ![p] = [op |-> "Get", key |-> key, now |-> now,
                                              lock |-> "none"]]
    /\ UNCHANGED <<now, head, tail, data, log, last>>

\* tc.Get: tc.RLock()
GetRLock(p) ==
    /\ pending[p].op = "Get"
    /\ pending[p].lock = "none"
    /\ RLock(pending, p)
    /\ pending' = [pending EXCEPT ![p].lock = "r"]
    /\ UNCHANGED <<now, head, tail, data, log, last>>

\* tc.Get: the scan under the shared lock, up to tc.RUnlock()
GetRUnlock(p) ==
    /\ pending[p].op = "Get"
    /\ pending[p].lock = "r"
    /\ \E r \in {Get(data, head, tail, pending[p].key, pending[p].now)} :
           /\ data' = r.data
           /\ head' = r.head
           /\ tail' = r.tail
    /\ pending' = [pending EXCEPT ![p] = Idle]
    /\ UNCHANGED <<now, log, last>>

\* the ticker fires and prune starts: now = time.Now()
PruneNow ==
    /\ pending[Sweeper] = Idle
    /\ pending' = [pending EXCEPT ![Sweeper] =
                       [op |-> "prune", now |-> now, lock |-> "none",
                        needPrune |-> FALSE, seen |-> tail]]
    /\ UNCHANGED <<now, head, tail, data, log, last>>

\* prune: tc.RLock()
PruneRLock ==
    /\ pending[Sweeper].op = "prune"
    /\ pending[Sweeper].lock = "none"
    /\ ~pending[Sweeper].needPrune
    /\ RLock(pending, Sweeper)
    /\ pending' = [pending EXCEPT ![Sweeper].lock = "r"]
    /\ UNCHANGED <<now, head, tail, data, log, last>>

\* prune: the peek at the tail under the shared lock, up to tc.RUnlock(); it
\* returns when there is nothing to prune.  seen is the tail it peeked at.
PruneRUnlock ==
    /\ pending[Sweeper].op = "prune"
    /\ pending[Sweeper].lock = "r"
    /\ IF needPrune(data, head, tail, pending[Sweeper].now)
       THEN pending' = [pending EXCEPT ![Sweeper].lock = "none",
                                       ![Sweeper].needPrune = TRUE,
                                       ![Sweeper].seen = tail]
       ELSE pending' = [pending EXCEPT ![Sweeper] = Idle]
    /\ UNCHANGED <<now, head, tail, data, log, last>>

\* prune: tc.Lock()
PruneLock ==
    /\ pending[Sweeper].op = "prune"
    /\ pending[Sweeper].lock = "none"
    /\ pending[Sweeper].needPrune
    /\ Lock(pending, Sweeper)
    /\ pending' = [pending EXCEPT ![Sweeper].lock = "w"]
    /\ UNCHANGED <<now, head, tail, data, log, last>>

\* prune: the loop under the exclusive lock, up to tc.Unlock()
PruneUnlock ==
    /\ pending[Sweeper].op = "prune"
    /\ pending[Sweeper].lock = "w"
    /\ tail' = pruneFrom(data, head, tail, pending[Sweeper].now)
    /\ pending' = [pending EXCEPT ![Sweeper] = Idle]
    /\ UNCHANGED <<now, head, data, log, last>>

InitLock == InitCache

NextLock ==
    \/ (CacheTick /\ UNCHANGED cacheIdleVars)
    \/ (PruneNow /\ UNCHANGED cacheIdleVars)
    \/ (PruneRLock /\ UNCHANGED cacheIdleVars)
    \/ (PruneRUnlock /\ UNCHANGED cacheIdleVars)
    \/ (PruneLock /\ UNCHANGED cacheIdleVars)
    \/ (PruneUnlock /\ UNCHANGED cacheIdleVars)
    \/ \E p \in Callers :
        \/ (GetNow(p) /\ UNCHANGED cacheIdleVars)
        \/ (GetRLock(p) /\ UNCHANGED cacheIdleVars)
        \/ (GetRUnlock(p) /\ UNCHANGED cacheIdleVars)
        \/ (AddNow(p) /\ UNCHANGED cacheIdleVars)
        \/ (AddLock(p) /\ UNCHANGED cacheIdleVars)
        \/ (AddUnlock(p) /\ UNCHANGED cacheIdleVars)

SpecLock == InitLock /\ [][NextLock]_vars

---------------------------------------------------------------------------
(* StreamSeeker, src/stream_seeker.go *)

\* Go's int64, scaled down to WordBits bits: the values and the wrap-around of
\* an addition
MinInt == 0 - 2^(WordBits - 1)
MaxInt == 2^(WordBits - 1) - 1
Int64  == MinInt..MaxInt
Wrap(x) == ((x - MinInt) % 2^WordBits) + MinInt

ErrInvalidPos == "StreamSeeker.Seek: cannot seek before read position"
ErrWhence     == "StreamSeeker.Seek: invalid whence"
EOF           == "EOF"
ErrUnexpected == "unexpected error"

\* what a call returned: n is the count of Read, or the offset of Seek; bytes
\* are the bytes put into the caller's buffer; from is the offset in the source
\* of the first of them
NoReturn == [op |-> NoRequest, n |-> 0, err |-> NoErr, bytes |-> <<>>, from |-> 0]

\* Seek that accepts every target up to the declared size
Seek_NoLowerBound(s, offset, whence) ==
    LET abs == CASE whence = 0 -> offset
                 [] whence = 1 -> Wrap(s.pos + offset)
                 [] whence = 2 -> Wrap(s.size + offset)
                 [] OTHER -> 0
        ret(n, err) == [op |-> "Seek", n |-> n, err |-> err, bytes |-> <<>>, from |-> 0]
    IN  IF whence \notin {0, 1, 2} THEN [s EXCEPT !.ret = ret(0, ErrWhence)]
        ELSE IF abs > s.size THEN [s EXCEPT !.ret = ret(0, ErrInvalidPos)]
        ELSE [s EXCEPT !.pos = abs, !.ret = ret(abs, NoErr)]

\* Seek that stores the target before it validates it
Seek_StoreFirst(s, offset, whence) ==
    LET abs == CASE whence = 0 -> offset
                 [] whence = 1 -> Wrap(s.pos + offset)
                 [] whence = 2 -> Wrap(s.size + offset)
                 [] OTHER -> 0
        ret(n, err) == [op |-> "Seek", n |-> n, err |-> err, bytes |-> <<>>, from |-> 0]
    IN  IF whence \notin {0, 1, 2} THEN [s EXCEPT !.ret = ret(0, ErrWhence)]
        ELSE IF abs < s.i THEN [s EXCEPT !.pos = abs, !.ret = ret(0, ErrInvalidPos)]
        ELSE IF abs > s.size THEN [s EXCEPT !.pos = abs, !.ret = ret(0, ErrInvalidPos)]
        ELSE [s EXCEPT !.pos = abs, !.ret = ret(abs, NoErr)]

\* StreamSeeker.Seek(offset, whence) on the seeker s: the seeker after the call,
\* with what the call returned in ret
Seek(s, offset, whence) ==
    LET abs == CASE whence = 0 -> offset
                 [] whence = 1 -> Wrap(s.pos + offset)
                 [] whence = 2 -> Wrap(s.size + offset)
                 [] OTHER -> 0
        ret(n, err) == [op |-> "Seek", n |-> n, err |-> err, bytes |-> <<>>, from |-> 0]
    IN  IF whence \notin {0, 1, 2} THEN [s EXCEPT !.ret = ret(0, ErrWhence)]
        ELSE IF abs < s.i THEN [s EXCEPT !.ret = ret(0, ErrInvalidPos)]
        ELSE IF abs > s.size THEN [s EXCEPT !.ret = ret(0, ErrInvalidPos)]
        ELSE [s EXCEPT !.pos = abs, !.ret = ret(abs, NoErr)]

\* What ss.s.Read(buf) may return for a buffer of length l when the source has
\* handed out s.taken bytes: up to l of the bytes that are left, with no error,
\* with an error, or with EOF when these were the last bytes.  An io.Reader may
\* return bytes together with an error and may return 0 bytes with no error.
SourceReads(s, l) ==
    LET left == Len(s.content) - s.taken
        most == IF l < left THEN l ELSE left
    IN  {[n |-> n, err |-> e] : n \in 0..most, e \in {NoErr, ErrUnexpected}}
        \cup {[n |-> left, err |-> EOF] : x \in {y \in {0} : left <= l}}

\* len(pp) in the loop of Read: the buffer, cut to what is left to catch up
catchLen(s) == IF s.i + s.plen > s.pos THEN s.pos - s.i ELSE s.plen

\* one turn of the loop of Read when ss.s.Read(pp) returned r
catchUp(s, r) ==
    IF r.err # NoErr
    THEN [s EXCEPT !.taken = s.taken + r.n, !.pc = "idle",
                   !.ret = [op |-> "Read", n |-> 0, err |-> r.err, bytes |-> <<>>,
                            from |-> s.taken]]
    ELSE [s EXCEPT !.taken = s.taken + r.n, !.i = s.i + r.n,
                   !.pc = IF s.i + r.n < s.pos THEN "catchup" ELSE "read"]

\* the read into p after the loop, when ss.s.Read(p) returned r
realRead(s, r) ==
    LET ret == [op |-> "Read", n |-> r.n, err |-> r.err,
                bytes |-> SubSeq(s.content, s.taken + 1, s.taken + r.n),
                from |-> s.taken]
    IN  IF r.err = NoErr
        THEN [s EXCEPT !.taken = s.taken + r.n, !.i = s.i + r.n, !.pos = s.pos + r.n,
                       !.pc = "idle", !.ret = ret]
        ELSE [s EXCEPT !.taken = s.taken + r.n, !.pc = "idle", !.ret = ret]

---------------------------------------------------------------------------
(* Specification SpecStream: Seek and Read calls on one StreamSeeker *)

Alphabet == <<"a", "b", "c", "d", "e", "f", "g", "h">>

\* the bytes of the wrapped source
Content == SubSeq(Alphabet, 1, MaxSrc)

\* the snapshot a call starts from
snapshot(s) == [pos |-> s.pos, i |-> s.i, taken |-> s.taken, content |-> s.content]

\* NewStreamSeeker(s, size): size need not be the length of the source
NewStreamSeeker(content, size) ==
    [content |-> content, taken |-> 0, pos |-> 0, i |-> 0, size |-> size,
     pc |-> "idle", plen |-> 0, clean |-> TRUE, turn |-> 0,
     args |-> [offset |-> 0, whence |-> 0],
     pre |-> [pos |-> 0, i |-> 0, taken |-> 0, content |-> content],
     ret |-> NoReturn]

\* the offsets handed to Seek: every offset that reaches a position of the
\* source or just misses one from either end, and the two extreme int64 values
Offsets == ((0 - MaxSrc - 1)..(MaxSrc + 1)) \cup {MinInt, MaxInt}

StreamInit ==
    ss \in {NewStreamSeeker(Content, size) : size \in {MaxSrc - 1, MaxSrc, MaxSrc + 1}}

\* the caller calls ss.Seek(offset, whence)
SeekCall ==
    /\ ss.pc = "idle"
    /\ \E offset \in Offsets, whence \in 0..3 :
           ss' = Seek([ss EXCEPT !.pre = snapshot(ss),
                                 !.args = [offset |-> offset, whence |-> whence]],
                      offset, whence)

\* the caller calls ss.Read(p) with len(p) = l
ReadBegin ==
    /\ ss.pc = "idle"
    /\ \E l \in 0..MaxBuf :
           ss' = [ss EXCEPT !.pre = snapshot(ss), !.plen = l,
                            !.pc = IF ss.i < ss.pos THEN "catchup" ELSE "read"]

\* one read of the source in the loop of Read.  clean tells whether the source
\* has so far never returned bytes together with an error; turn is the parity
\* of the turns the loop of this Read has made, 0 outside the loop.
ReadCatchUp ==
    /\ ss.pc = "catchup"
    /\ \E r \in SourceReads(ss, catchLen(ss)) :
           \E c \in {catchUp(ss, r)} :
               ss' = [c EXCEPT !.clean = ss.clean /\ ~(r.n > 0 /\ r.err # NoErr),
                               !.turn = IF c.pc = "catchup" THEN 1 - ss.turn ELSE 0]

\* the read of the source into p, and the return of Read
ReadReal ==
    /\ ss.pc = "read"
    /\ \E r \in SourceReads(ss, ss.plen) :
           ss' = [realRead(ss, r) EXCEPT !.clean = ss.clean /\ ~(r.n > 0 /\ r.err # NoErr)]

streamIdleVars == <<cvVars, gateVars, cacheVars, hs>>

InitStream ==
    /\ StreamInit
    /\ hs = Nil
    /\ now = 1
    /\ fedora = [i \in Ids |-> FetchError]
    /\ CurrentUser = FALSE /\ dhAuth = FALSE /\ haHandler = FALSE
    /\ head = 0 /\ tail = 0
    /\ data = New(CacheSize)
    /\ last = NoLast
    /\ fetched = NeverFetched
    /\ cvHr = Nil /\ cvUser = AnonUser /\ cvNow = 0 /\ cvResult = <<>>
    /\ IdleCache

NextStream ==
    \/ (SeekCall /\ UNCHANGED streamIdleVars)
    \/ (ReadBegin /\ UNCHANGED streamIdleVars)
    \/ (ReadCatchUp /\ UNCHANGED streamIdleVars)
    \/ (ReadReal /\ UNCHANGED streamIdleVars)

SpecStream == InitStream /\ [][NextStream]_vars

\* The same with a goroutine that goes on running the Read it has begun: the
\* next statement of a call in progress is eventually executed.  What the
\* source returns stays the source's choice.
SpecStreamLive ==
    /\ InitStream
    /\ [][NextStream]_vars
    /\ WF_vars(ReadCatchUp /\ UNCHANGED streamIdleVars)
    /\ WF_vars(ReadReal /\ UNCHANGED streamIdleVars)

---------------------------------------------------------------------------
(* HTTPSeeker, src/http_seeker.go *)

fedoraErrNotFound      == "fedora: not found"
fedoraErrNotAuthorized == "fedora: not authorized"
ErrStatus              == "Received status from bendo"

\* the page size Read uses when h.PageSize is 0
DefaultPageSize == 2^26

\* Seek that leaves the buffered page in place
HTTPSeek_KeepBuffer(h, offset, whence) ==
    LET abs == CASE whence = 0 -> offset
                 [] whence = 1 -> Wrap(h.pos + offset)
                 [] whence = 2 -> Wrap(h.size + offset)
                 [] OTHER -> 0
        clamped == IF abs > h.size THEN h.size ELSE abs
        ret(n, err) == [op |-> "Seek", n |-> n, err |-> err, bytes |-> <<>>, from |-> 0]
    IN  IF whence \notin {0, 1, 2} THEN [h EXCEPT !.ret = ret(0, ErrWhence)]
        ELSE [h EXCEPT !.pos = clamped, !.ret = ret(clamped, NoErr)]

\* HTTPSeeker.Seek(offset, whence) on the seeker h: the seeker after the call,
\* with what the call returned in ret
HTTPSeek(h, offset, whence) ==
    LET abs == CASE whence = 0 -> offset
                 [] whence = 1 -> Wrap(h.pos + offset)
                 [] whence = 2 -> Wrap(h.size + offset)
                 [] OTHER -> 0
        clamped == IF abs > h.size THEN h.size ELSE abs
        ret(n, err) == [op |-> "Seek", n |-> n, err |-> err, bytes |-> <<>>, from |-> 0]
    IN  IF whence \notin {0, 1, 2} THEN [h EXCEPT !.ret = ret(0, ErrWhence)]
        ELSE [h EXCEPT !.buffer = <<>>, !.pos = clamped, !.ret = ret(clamped, NoErr)]

\* What the origin may answer to GET with Range: bytes=start-(end-1): the bytes
\* asked for with 206, the whole resource with 200 when it does not serve
\* ranges, or a status that is an error for fillbuffer.
OriginAnswers(h, start, end) ==
    LET len  == Len(h.content)
        stop == IF end < len THEN end ELSE len
    IN  {[status |-> 206, body |-> SubSeq(h.content, start + 1, stop)] :
             x \in {y \in {0} : 0 <= start /\ start < len}}
        \cup {[status |-> 200, body |-> h.content]}
        \cup {[status |-> st, body |-> <<>>] : st \in {401, 404, 416, 500}}

\* fillbuffer that takes the body of every answer as the page
fillbuffer_AnyStatus(h, start, end, a) ==
    [err |-> NoErr, buffer |-> h.buffer \o a.body]

\* h.fillbuffer(start, end) when the origin answered a: the error returned and
\* the buffer after the call
fillbuffer(h, start, end, a) ==
    CASE a.status = 404 -> [err |-> fedoraErrNotFound, buffer |-> h.buffer]
      [] a.status = 401 -> [err |-> fedoraErrNotAuthorized, buffer |-> h.buffer]
      [] a.status \in {200, 206} -> [err |-> NoErr, buffer |-> h.buffer \o a.body]
      [] OTHER -> [err |-> ErrStatus, buffer |-> h.buffer]

\* h.buffer.Read(p) of bytes.Buffer with len(p) = l, and the h.pos += n after it
bufferRead(h, l, from) ==
    LET n == IF l < Len(h.buffer) THEN l ELSE Len(h.buffer)
    IN  IF Len(h.buffer) = 0
        THEN [h EXCEPT !.ret = [op |-> "Read", n |-> 0,
                                err |-> IF l = 0 THEN NoErr ELSE EOF,
                                bytes |-> <<>>, from |-> from]]
        ELSE [h EXCEPT !.buffer = SubSeq(h.buffer, n + 1, Len(h.buffer)),
                       !.pos = h.pos + n,
                       !.ret = [op |-> "Read", n |-> n, err |-> NoErr,
                                bytes |-> SubSeq(h.buffer, 1, n), from |-> from]]

\* the range Read asks for when its buffer is empty
pageStart(h) == h.pos

\* the end of the page, not cut at the declared size
pageEnd_Unclamped(h) ==
    h.pos + (IF h.PageSize > 0 THEN h.PageSize ELSE DefaultPageSize)

pageEnd(h) ==
    LET bufferSize == IF h.PageSize > 0 THEN h.PageSize ELSE DefaultPageSize
    IN  IF h.pos + bufferSize > h.size THEN h.size ELSE h.pos + bufferSize

\* HTTPSeeker.Read(p) with len(p) = l, when the origin answers a to the ranged
\* GET this Read makes, if it makes one; reqs are the requests made
HTTPRead(h, l, a) ==
    IF Len(h.buffer) <= 0
    THEN IF pageEnd(h) <= pageStart(h)
         THEN [h EXCEPT !.reqs = <<>>,
                        !.ret = [op |-> "Read", n |-> 0, err |-> EOF, bytes |-> <<>>,
                                 from |-> h.pos]]
         ELSE LET f == fillbuffer(h, pageStart(h), pageEnd(h), a)
                  req == [start |-> pageStart(h), end |-> pageEnd(h), status |-> a.status]
              IN  IF f.err # NoErr
                  THEN [h EXCEPT !.reqs = <<req>>,
                                 !.ret = [op |-> "Read", n |-> 0, err |-> f.err,
                                          bytes |-> <<>>, from |-> h.pos]]
                  ELSE bufferRead([h EXCEPT !.reqs = <<req>>, !.buffer = f.buffer], l, h.pos)
    ELSE bufferRead([h EXCEPT !.reqs = <<>>], l, h.pos)

---------------------------------------------------------------------------
(* Specification SpecHTTP: Seek and Read calls on one HTTPSeeker *)

\* NewHTTPSeeker(source, length, token) and the PageSize the caller sets; size
\* is length, or what askcontentlength learned when length <= 0
NewHTTPSeeker(content, size, page) ==
    [content |-> content, size |-> size, pos |-> 0, buffer |-> <<>>, PageSize |-> page,
     pre |-> [pos |-> 0, buffer |-> <<>>], args |-> [offset |-> 0, whence |-> 0],
     reqs |-> <<>>, ranged |-> TRUE, ret |-> NoReturn]

HTTPInit ==
    hs \in {NewHTTPSeeker(Content, size, page) :
               size \in {MaxSrc}, page \in {0, MaxSrc - 1}}

\* the caller calls h.Seek(offset, whence)
HTTPSeekCall ==
    \E offset \in Offsets, whence \in 0..3 :
        \E h \in {HTTPSeek([hs EXCEPT !.pre = [pos |-> hs.pos, buffer |-> hs.buffer],
                                      !.args = [offset |-> offset, whence |-> whence]],
                           offset, whence)} :
            hs' = [h EXCEPT !.ranged = (h.ret.err = NoErr) \/ hs.ranged]

\* the caller calls h.Read(p) with len(p) = l; the origin answers the ranged
\* GET of this call, if there is one.  ranged tells whether every page read
\* since the last Seek was the range asked for (206) and not a whole resource
\* sent by an origin that ignores the Range header (200).
HTTPReadCall ==
    \E l \in 0..MaxBuf :
        \E a \in IF Len(hs.buffer) <= 0 /\ pageEnd(hs) > pageStart(hs)
                 THEN OriginAnswers(hs, pageStart(hs), pageEnd(hs))
                 ELSE {[status |-> 0, body |-> <<>>]} :
            hs' = [HTTPRead([hs EXCEPT !.pre = [pos |-> hs.pos, buffer |-> hs.buffer]], l, a)
                      EXCEPT !.ranged = hs.ranged /\ a.status # 200]

httpIdleVars == <<cvVars, gateVars, cacheVars, ss>>

InitHTTP ==
    /\ HTTPInit
    /\ ss = Nil
    /\ now = 1
    /\ fedora = [i \in Ids |-> FetchError]
    /\ CurrentUser = FALSE /\ dhAuth = FALSE /\ haHandler = FALSE
    /\ head = 0 /\ tail = 0
    /\ data = New(CacheSize)
    /\ last = NoLast
    /\ fetched = NeverFetched
    /\ cvHr = Nil /\ cvUser = AnonUser /\ cvNow = 0 /\ cvResult = <<>>
    /\ IdleCache

NextHTTP ==
    \/ (HTTPSeekCall /\ UNCHANGED httpIdleVars)
    \/ (HTTPReadCall /\ UNCHANGED httpIdleVars)

SpecHTTP == InitHTTP /\ [][NextHTTP]_vars

---------------------------------------------------------------------------
(* Properties of the rights model, checked under SpecCanView *)

Elems(list) == {list[i] : i \in 1..Len(list)}

cvCalled   == cvResult # <<>>
cvGroups   == Elems(cvHr.readGroups) \cup Elems(cvHr.editGroups)
cvPeople   == Elems(cvHr.readPeople) \cup Elems(cvHr.editPeople)
cvEmbargo  == cvNow < cvHr.embargo

\* C1: for a version "0.1" record with no active embargo canView returns Allow
\* exactly when "public" is a read or edit group, or the user id is non-empty
\* and "registered" is a read or edit group, or one of the user's groups is a
\* read or edit group, or the user id is a read or edit person; otherwise it
\* returns Deny.
C1_NoEmbargoDecision ==
    (cvCalled /\ cvHr.version = "0.1" /\ ~cvEmbargo) =>
        /\ cvResult[1] \in {AuthAllow, AuthDeny}
        /\ cvResult[1] = AuthAllow <=>
              \/ "public" \in cvGroups
              \/ (cvUser.Id # "" /\ "registered" \in cvGroups)
              \/ Elems(cvUser.Groups) \cap cvGroups # {}
              \/ cvUser.Id \in cvPeople

C1_Witness ==
    /\ cvCalled /\ cvHr.version = "0.1" /\ ~cvEmbargo
    /\ cvHr.embargo # ZeroTime
    /\ cvUser.Id = "" /\ cvUser.Groups # <<>>
    /\ "registered" \in cvGroups /\ "public" \notin cvGroups
    /\ cvResult[1] = AuthDeny

\* C2: while the embargo of a version "0.1" record is active canView returns
\* Allow exactly when the user id is an edit person or one of the user's groups
\* is an edit group, and Deny otherwise, whatever the read lists, "public" and
\* "registered" say.
C2_EmbargoOnlyEditors ==
    (cvCalled /\ cvHr.version = "0.1" /\ cvEmbargo) =>
        /\ cvResult[1] \in {AuthAllow, AuthDeny}
        /\ cvResult[1] = AuthAllow <=>
              \/ cvUser.Id \in Elems(cvHr.editPeople)
              \/ Elems(cvUser.Groups) \cap Elems(cvHr.editGroups) # {}

C2_Witness ==
    /\ cvCalled /\ cvHr.version = "0.1" /\ cvEmbargo
    /\ cvUser.Id \in Elems(cvHr.readPeople)
    /\ "public" \in Elems(cvHr.readGroups)
    /\ cvResult[1] = AuthDeny

\* C3: for a record whose version is not "0.1" canView returns Error for every
\* user, whatever the lists and the embargo are.
C3_OtherVersionIsError ==
    (cvCalled /\ cvHr.version # "0.1") => cvResult[1] = AuthError

C3_Witness ==
    /\ cvCalled /\ cvHr.version # "0.1"
    /\ "public" \in Elems(cvHr.readGroups)
    /\ cvUser.Id \in Elems(cvHr.editPeople)
    /\ cvResult[1] = AuthError

\* C4: people lists and group lists are separate namespaces: with version
\* "0.1", no active embargo and neither "public" nor "registered" among the
\* groups, a user none of whose groups is a read or edit group and whose id is
\* no read or edit person is denied, also when the groups occur in the people
\* lists and the id occurs in the group lists.
C4_SeparateNamespaces ==
    (/\ cvCalled /\ cvHr.version = "0.1" /\ ~cvEmbargo
     /\ "public" \notin cvGroups /\ "registered" \notin cvGroups
     /\ Elems(cvUser.Groups) \cap cvGroups = {}
     /\ cvUser.Id \notin cvPeople)
    => cvResult[1] = AuthDeny

C4_Witness ==
    /\ cvCalled /\ cvHr.version = "0.1" /\ ~cvEmbargo
    /\ "public" \notin cvGroups /\ "registered" \notin cvGroups
    /\ cvUser.Id # "" /\ cvUser.Id \in cvGroups /\ cvUser.Id \notin cvPeople
    /\ Elems(cvUser.Groups) \cap cvPeople # {}
    /\ Elems(cvUser.Groups) \cap cvGroups = {}
    /\ cvResult[1] = AuthDeny

---------------------------------------------------------------------------
(* Properties of the gate, checked under Spec *)

checkDone == last.op = "Check"

\* canView of the anonymous user on the rights the last call used, at the time
\* of that call
anonMayView == last.rights # Nil /\ canView(last.rights, AnonUser, last.at) = AuthAllow

\* C5: whenever canView of the anonymous user on the object's rights returns
\* Allow, Check returns Allow and never calls CurrentUser.User.
C5_PublicShortCircuit ==
    (checkDone /\ anonMayView) => (last.result = AuthAllow /\ last.userCalls = 0)

C5_Witness ==
    /\ checkDone /\ anonMayView /\ CurrentUser
    /\ last.user.Id # ""
    /\ last.result = AuthAllow /\ last.userCalls = 0

isAdmin(u) == u.Id \in Elems(Admin) \/ Elems(u.Groups) \cap Elems(Admin) # {}

C7_OtherVersionIsError ==
    (checkDone /\ last.rights # Nil /\ last.rights.version # "0.1") =>
        last.result = AuthError

\* C8: when the cache holds no live rights record for the id and the fetch of
\* the rights document fails or the document does not decode, Check returns
\* AuthNotFound.
C8_FailedFetchIsNotFound ==
    (checkDone /\ ~last.hit /\ fedora[last.id] \in {FetchError, Garbled}) =>
        last.result = AuthNotFound

C8_Witness ==
    /\ checkDone /\ ~last.hit /\ fedora[last.id] = Garbled
    /\ last.fetches = 1
    /\ last.result = AuthNotFound

\* C9: with no resolver configured, Check returns Deny for an object whose
\* rights do not allow the anonymous user, and returns Allow only for objects
\* the anonymous user may view.
C9_NoResolverOnlyPublic ==
    (checkDone /\ ~CurrentUser) =>
        /\ (last.rights # Nil /\ ~anonMayView) => last.result = AuthDeny
        /\ last.result = AuthAllow => anonMayView

C9_Witness ==
    /\ checkDone /\ ~CurrentUser /\ ~anonMayView
    /\ last.rights # Nil /\ last.rights.version = "0.1"
    /\ last.user.Id \in Elems(last.rights.readPeople)
    /\ last.result = AuthDeny

---------------------------------------------------------------------------
(* Properties of the HTTP entry points, checked under SpecServe *)

\* C10: in DownloadHandler.ServeHTTP and in HydraAuth.ServeHTTP the outcome of
\* Check fixes the response: Allow lets the request go on to the routes or to
\* the wrapped handler, Deny is answered 401, NotFound 404 and Error 500, and
\* nothing is fetched for those three; an outcome outside the four is
\* answered 500.
C10_OutcomeToStatus ==
    /\ (last.op \in {"DownloadHandler", "HydraAuth"} /\ last.checked) =>
          /\ last.result = AuthAllow => last.routed
          /\ last.result = AuthDeny =>
                (~last.routed /\ last.status = StatusUnauthorized /\ last.calls = <<>>)
          /\ last.result = AuthNotFound =>
                (~last.routed /\ last.status = StatusNotFound /\ last.calls = <<>>)
          /\ last.result = AuthError =>
                (~last.routed /\ last.status = StatusInternalServerError /\ last.calls = <<>>)
    /\ downloadSwitch(AuthError + 1) = StatusInternalServerError
    /\ hydraSwitch(AuthError + 1) = StatusInternalServerError

C10_Witness ==
    /\ last.op = "DownloadHandler" /\ last.checked
    /\ last.result = AuthNotFound
    /\ last.status = StatusNotFound

---------------------------------------------------------------------------
(* Properties of the cache, checked under SpecCache *)

Min(S) == CHOOSE x \in S : \A y \in S : x <= y

\* the number of entries between tail and head of the cache c
liveCount(c) ==
    (c.head - c.tail + Cardinality(DOMAIN c.data)) % Cardinality(DOMAIN c.data)

\* the k-th entry of the cache c counted from its tail, k = 0 for the oldest
liveAt(c, k) == c.data[(c.tail + k) % Cardinality(DOMAIN c.data)]

\* the positions, counted from the tail, of the entries of c that Get(key) at
\* time t may return
matches(c, key, t) ==
    {k \in 0..(liveCount(c) - 1) : liveAt(c, k).key = key /\ t < liveAt(c, k).t}

\* the Adds whose entries are still between tail and head of c
surviving(c) == {j \in 1..Len(log) : j > Len(log) - liveCount(c)}

getDone == last.op = "Get"

\* C11: Get(key) returns the value of the first entry between tail and head
\* whose key is key and whose expiry is in the future, which is the value of
\* the oldest surviving unexpired Add of that key; it returns ErrNotFound when
\* there is no such entry.
C11_GetFirstMatch ==
    getDone =>
        LET M == matches(last.pre, last.key, last.at)
            S == {j \in surviving(last.pre) :
                     log[j].key = last.key /\ last.at < log[j].at + Expires}
        IN  IF M = {}
            THEN last.err = ErrNotFound /\ last.v = Nil /\ S = {}
            ELSE /\ last.err = NoErr
                 /\ last.v = liveAt(last.pre, Min(M)).val
                 /\ S # {}
                 /\ last.v = log[Min(S)].val

\* a Get answered with the older of two unexpired entries of its key
C11_Witness ==
    /\ getDone
    /\ last.err = NoErr
    /\ Cardinality(matches(last.pre, last.key, last.at)) >= 2

\* C12: a value Get returns at time t was added under that key less than
\* Expires before t, whether or not the sweeper has removed expired entries.
C12_NeverExpired ==
    (getDone /\ last.err = NoErr) =>
        \E j \in 1..Len(log) :
            /\ log[j].key = last.key
            /\ log[j].val = last.v
            /\ last.at - log[j].at < Expires

\* a Get that found a value although an expired entry of its key was still
\* between tail and head
C12_Witness ==
    /\ getDone
    /\ last.err = NoErr
    /\ \E k \in 0..(liveCount(last.pre) - 1) :
           /\ liveAt(last.pre, k).key = last.key
           /\ liveAt(last.pre, k).t <= last.at

\* every Add so far was made less than Expires before the Get finished
allWithinTTL == \A j \in 1..Len(log) : last.done < log[j].at + Expires

\* C13: while no Add is older than Expires, Get(k) succeeds exactly for the
\* keys of the most recent TestSize Adds, and the cache holds at most TestSize
\* entries.
C13_HoldsAtMostSize ==
    (getDone /\ allWithinTTL) =>
        /\ liveCount(last.pre) <= TestSize
        /\ liveCount(last.pre) = IF Len(log) < TestSize THEN Len(log) ELSE TestSize
        /\ (last.err = NoErr) <=>
               (\E j \in 1..Len(log) : j > Len(log) - TestSize /\ log[j].key = last.key)

\* a Get that misses a key whose only Add is unexpired but older than the most
\* recent TestSize Adds
C13_Witness ==
    /\ getDone
    /\ allWithinTTL
    /\ Len(log) > TestSize
    /\ last.err = ErrNotFound
    /\ \E j \in 1..Len(log) : log[j].key = last.key

pruneDone == last.op = "prune"

\* the index prune at time t is to move the tail of c to
firstLive(c, t) ==
    LET L == {k \in 0..(liveCount(c) - 1) : t < liveAt(c, k).t}
    IN  IF L = {} THEN c.head
        ELSE (c.tail + Min(L)) % Cardinality(DOMAIN c.data)

\* C14: prune moves tail to the first index from the old tail whose expiry is
\* in the future, or to head when every entry has expired, and leaves head and
\* the entries unchanged.
C14_PruneToFirstLive ==
    pruneDone =>
        /\ last.post.tail = firstLive(last.pre, last.at)
        /\ last.post.head = last.pre.head
        /\ last.post.data = last.pre.data

\* what prune does: as C14_PruneToFirstLive, except that a prune that runs at
\* the very instant the tail entry expires leaves the tail where it is
C14_PruneExceptAtExpiry ==
    pruneDone =>
        /\ last.post.tail =
               IF /\ last.err = "peek"
                  /\ last.pre.head # last.pre.tail
                  /\ last.pre.data[last.pre.tail].t = last.at
               THEN last.pre.tail
               ELSE firstLive(last.pre, last.at)
        /\ last.post.head = last.pre.head
        /\ last.post.data = last.pre.data

\* C15: Get leaves head, tail and every entry as they were, on a hit and on
\* a miss.
C15_GetChangesNothing ==
    getDone => last.post = last.pre

\* a Get that hit while an expired entry was at the tail
C15_Witness ==
    /\ getDone
    /\ last.err = NoErr
    /\ last.pre.data[last.pre.tail].t <= last.at

---------------------------------------------------------------------------
(* Properties of the gate over its cache, checked under Spec *)

---------------------------------------------------------------------------
(* Properties of the StreamSeeker, checked under SpecStream *)

seekDone == ss.ret.op = "Seek" /\ ss.pc = "idle"
readDone == ss.ret.op = "Read" /\ ss.pc = "idle"

\* the target of the last Seek, as a number
seekTarget ==
    CASE ss.args.whence = 0 -> ss.args.offset
      [] ss.args.whence = 1 -> ss.pre.pos + ss.args.offset
      [] ss.args.whence = 2 -> ss.size + ss.args.offset
      [] OTHER -> 0

C18_SeekOnlyMovesPosition ==
    seekDone =>
        /\ ss.i = ss.pre.i
        /\ ss.taken = ss.pre.taken
        /\ ss.content = ss.pre.content
        /\ ss.ret.err # NoErr => ss.pos = ss.pre.pos

\* a Seek that failed with ErrInvalidPos on a seeker whose position had moved
C18_Witness ==
    /\ seekDone
    /\ ss.ret.err = ErrInvalidPos
    /\ ss.pre.pos > 0
    /\ ss.pre.taken > 0

\* a successful Read discarded the source bytes from the consumed count up to
\* the position it started at and delivered the bytes of the source from there
readAtPosition ==
    /\ ss.pre.taken = ss.pre.i
    /\ ss.ret.from = ss.pre.pos
    /\ ss.ret.bytes = SubSeq(ss.content, ss.pre.pos + 1, ss.pre.pos + ss.ret.n)

\* C19: a successful Read discards exactly the source bytes between the
\* consumed count and the position, and returns the bytes of the source that
\* start at the position, in particular at the offset of a Seek before it.
C19_ReadAtSoughtOffset ==
    (readDone /\ ss.ret.err = NoErr) => readAtPosition

\* the same, as long as the source never returned bytes together with an error
C19_ReadAtSoughtOffsetOnCleanSource ==
    (readDone /\ ss.ret.err = NoErr /\ ss.clean) => readAtPosition

---------------------------------------------------------------------------
(* Properties of the HTTPSeeker, checked under SpecHTTP *)

httpSeekDone == hs.ret.op = "Seek"

\* the target of the last Seek on the HTTPSeeker, as a number
httpSeekTarget ==
    CASE hs.args.whence = 0 -> hs.args.offset
      [] hs.args.whence = 1 -> hs.pre.pos + hs.args.offset
      [] hs.args.whence = 2 -> hs.size + hs.args.offset
      [] OTHER -> 0

\* what C20 says of a Seek with the target t
seekClamps(t) ==
    IF hs.args.whence \notin {0, 1, 2}
    THEN hs.ret.err = ErrWhence
    ELSE /\ hs.ret.err = NoErr
         /\ hs.pos = (IF t > hs.size THEN hs.size ELSE t)
         /\ hs.ret.n = hs.pos
         /\ hs.buffer = <<>>

\* C20: Seek computes its target from the start, the position or the size; a
\* target above the size is clamped to the size; the position becomes the
\* clamped target, which is returned, and the buffered page is discarded; a
\* whence other than 0, 1, 2 returns ErrWhence.
C20_SeekClamps ==
    httpSeekDone => seekClamps(httpSeekTarget)

\* the same for the targets an int64 holds: what Seek does at every call
C20_SeekClampsWithinInt64 ==
    httpSeekDone => seekClamps(Wrap(httpSeekTarget))

httpReadDone == hs.ret.op = "Read"

\* the last Read delivered the bytes of the resource at the positions read
readAtPositions ==
    /\ hs.pre.pos >= 0
    /\ hs.pre.pos + hs.ret.n <= Len(hs.content)
    /\ hs.ret.bytes = SubSeq(hs.content, hs.pre.pos + 1, hs.pre.pos + hs.ret.n)
    /\ hs.pos = hs.pre.pos + hs.ret.n

\* C21: every Read delivers the bytes of the resource at the positions it
\* reads, and reports end-of-stream only at the declared size, so that a read
\* from 0 to end-of-stream returns the whole resource once and in order.
C21_ReadsTheResource ==
    httpReadDone =>
        /\ hs.ret.n > 0 => readAtPositions
        /\ hs.ret.err = EOF => hs.pre.pos = hs.size

\* the same for a Read at a position in the resource, when the pages fetched
\* since the last Seek were the ranges asked for
C21_ReadsTheResourceFromRanges ==
    (httpReadDone /\ hs.ranged /\ hs.pre.pos >= 0) =>
        /\ hs.ret.n > 0 => readAtPositions
        /\ hs.ret.err = EOF => hs.pre.pos = hs.size

\* C22: Read makes a ranged GET only when its buffer is empty, for the bytes
\* start..end-1 with start the position, end the smaller of start + page size
\* and the declared size, and start < end; with an empty buffer at the declared
\* size it returns EOF and makes no request.
C22_PageRequests ==
    httpReadDone =>
        /\ Len(hs.reqs) <= 1
        /\ hs.pre.buffer # <<>> => hs.reqs = <<>>
        /\ \A k \in 1..Len(hs.reqs) :
               LET page == IF hs.PageSize > 0 THEN hs.PageSize ELSE DefaultPageSize
               IN  /\ hs.pre.buffer = <<>>
                   /\ hs.reqs[k].start = hs.pre.pos
                   /\ hs.reqs[k].end = (IF hs.pre.pos + page < hs.size
                                        THEN hs.pre.pos + page ELSE hs.size)
                   /\ hs.reqs[k].start < hs.reqs[k].end
        /\ (hs.pre.buffer = <<>> /\ hs.pre.pos = hs.size) =>
               (hs.reqs = <<>> /\ hs.ret.err = EOF /\ hs.ret.n = 0)

\* a Read that asked for a page cut at the declared size
C22_Witness ==
    /\ httpReadDone
    /\ hs.PageSize > 0
    /\ Len(hs.reqs) = 1
    /\ hs.reqs[1].start > 0
    /\ hs.reqs[1].end = hs.size
    /\ hs.reqs[1].end < hs.reqs[1].start + hs.PageSize

\* C23: a ranged GET answered 404 makes Read return the NotFound error, 401
\* the NotAuthorized error, any other status that is not 2xx a generic error;
\* Read then returns 0 bytes and leaves the position and the empty buffer as
\* they were.
C23_StatusToError ==
    (httpReadDone /\ Len(hs.reqs) = 1 /\ hs.reqs[1].status \notin {200, 206}) =>
        /\ hs.ret.err = (CASE hs.reqs[1].status = 404 -> fedoraErrNotFound
                           [] hs.reqs[1].status = 401 -> fedoraErrNotAuthorized
                           [] OTHER -> ErrStatus)
        /\ hs.ret.n = 0
        /\ hs.ret.bytes = <<>>
        /\ hs.pos = hs.pre.pos
        /\ hs.buffer = <<>>
        /\ hs.pre.buffer = <<>>

\* a Read in the middle of the resource whose ranged GET was answered 404
C23_Witness ==
    /\ httpReadDone
    /\ Len(hs.reqs) = 1
    /\ hs.reqs[1].status = 404
    /\ hs.pos > 0

\* C24: the expiry timestamps of the entries between tail and head never
\* decrease from tail to head, whatever the goroutines that Add do.
C24_ExpiryOrdered ==
    \A k \in 1..(liveCount(cacheNow) - 1) :
        liveAt(cacheNow, k - 1).t <= liveAt(cacheNow, k).t

\* the goroutine that changes head, tail or an entry in this step: the one
\* that gives up the exclusive lock
updater(p) == held(pending, p) = "w" /\ pending'[p] = Idle

\* C25: head, tail and the entries change only in a step of the goroutine that
\* holds the exclusive lock, while no other goroutine holds the lock in either
\* mode; prune leaves head and the entries alone and moves tail forward to an
\* index between the tail and the head it finds under the exclusive lock, and
\* every entry it moves tail past expired no later than the time it sampled,
\* also when Adds and their evictions came between its peek and its update.
C25_PruneUnderLock ==
    [][/\ (<<head, tail, data>>' # <<head, tail, data>>) =>
              \E p \in DOMAIN pending :
                  /\ updater(p)
                  /\ \A q \in DOMAIN pending : q # p => held(pending, q) = "none"
       /\ updater(Sweeper) =>
              /\ head' = head
              /\ data' = data
              /\ \E k \in 0..liveCount(cacheNow) :
                     /\ tail' = (tail + k) % DataLen
                     /\ \A j \in 0..(k - 1) :
                            liveAt(cacheNow, j).t <= pending[Sweeper].now
      ]_vars

\* prune holds the exclusive lock after an Add evicted the entry it peeked at,
\* and the entry now at the tail expires after the time prune sampled
C25_Witness ==
    /\ held(pending, Sweeper) = "w"
    /\ pending[Sweeper].seen # tail
    /\ head # tail
    /\ Before(pending[Sweeper].now, data[tail].t)

\* C26: head and tail are indexes of data; the cache is empty (head = tail)
\* before the first Add, never right after an Add, and otherwise only once
\* every entry added has expired and was swept; and the entries between tail
\* and head are at most len(data) - 1, an Add into a full cache giving up the
\* oldest entry, so that one slot stays empty.
C26_RingIndexes ==
    /\ head \in 0..(DataLen - 1)
    /\ tail \in 0..(DataLen - 1)
    /\ liveCount(cacheNow) <= DataLen - 1
    /\ log = <<>> => head = tail
    /\ head = tail => \A j \in 1..Len(log) : log[j].at + Expires <= now
    /\ last.op = "Add" =>
           /\ last.post.head # last.post.tail
           /\ liveCount(last.post) =
                  (IF liveCount(last.pre) + 1 < DataLen - 1
                   THEN liveCount(last.pre) + 1 ELSE DataLen - 1)

\* an Add into a full cache whose head wrapped around to index 0
C26_Witness ==
    /\ last.op = "Add"
    /\ cacheNow = last.post
    /\ liveCount(last.pre) = DataLen - 1
    /\ head < tail
    /\ liveCount(cacheNow) = DataLen - 1

\* C27: in every state of a StreamSeeker the consumed count is at most the
\* position and the position at most the declared size.
C27_CountersOrdered ==
    /\ ss.i <= ss.pos
    /\ ss.pos <= ss.size

\* C27 as the code has it: the consumed count is at most the position, and the
\* position is at most the declared size unless Reads have run past the
\* declared size, and then it is the consumed count.
C27_CountersOrderedUpToReadsPastSize ==
    /\ ss.i <= ss.pos
    /\ ss.pos <= ss.size \/ ss.pos = ss.i

\* a Read has carried the position past the declared size
C27_Witness ==
    /\ readDone
    /\ ss.ret.n > 0
    /\ ss.pre.pos <= ss.size
    /\ ss.pos > ss.size
    /\ ss.i = ss.pos

\* C28: after every Read the consumed count is the number of bytes taken from
\* the source and the position has moved on by the number of bytes returned,
\* also when the source returned bytes together with an error, in the
\* catch-up loop as in the read into the caller's buffer.
C28_ReadCounts ==
    readDone =>
        /\ ss.i = ss.taken
        /\ ss.pos = ss.pre.pos + ss.ret.n

\* the same, as long as the source never returned bytes together with an error
C28_ReadCountsOnCleanSource ==
    (readDone /\ ss.clean) =>
        /\ ss.i = ss.taken
        /\ ss.pos = ss.pre.pos + ss.ret.n

\* C29: in DownloadHandler.ServeHTTP with Auth configured, no call for
\* datastream info or content is made, to the object store or to the content
\* origin, unless Check was called first and returned Allow; a request whose
\* Check returned anything else reaches no route, makes no such call and is
\* answered with an error status and no content.
C29_CheckBeforeContent ==
    (last.op = "DownloadHandler" /\ dhAuth) =>
        /\ last.calls # <<>> => (last.checked /\ last.result = AuthAllow)
        /\ last.status \in {StatusOK, StatusNotModified} =>
               (last.checked /\ last.result = AuthAllow)
        /\ (last.checked /\ last.result # AuthAllow) =>
               /\ ~last.routed
               /\ last.calls = <<>>
               /\ last.status \in {StatusUnauthorized, StatusNotFound,
                                   StatusInternalServerError}

\* a denied request for a single file whose rights were fetched for the Check
C29_Witness ==
    /\ last.op = "DownloadHandler" /\ dhAuth
    /\ last.checked
    /\ last.result = AuthDeny
    /\ last.fetches = 1
    /\ last.calls = <<>>
    /\ last.status = StatusUnauthorized

\* a step of a Check: the only steps that change last, head or an entry
checkStep ==
    /\ last'.op = "Check"
    /\ <<last, head, data, fetched>>' # <<last, head, data, fetched>>

\* C30: a getRights that fetched and parsed a rights record has put it in the
\* cache under the id when it returns; and a Check for an id whose entry is
\* still between tail and head and has not expired decides on that cached
\* record, fetches nothing from the object store and leaves the cache as it is.
C30_CachedRightsUsed ==
    [][checkStep =>
          /\ (last'.fetches = 1 /\ last'.rights # Nil) =>
                 /\ matches([data |-> data', head |-> head', tail |-> tail'],
                            last'.id, now) # {}
                 /\ Get(data', head', tail', last'.id, now).v = last'.rights
                 /\ data'[head].key = last'.id
          /\ matches(cacheNow, last'.id, now) # {} =>
                 /\ last'.hit
                 /\ last'.fetches = 0
                 /\ last'.rights =
                        liveAt(cacheNow, Min(matches(cacheNow, last'.id, now))).val
                 /\ <<data, head, tail>>' = <<data, head, tail>>
                 /\ fetched' = fetched
      ]_vars

\* a Check after the one that fetched the rights of its id, decided on the
\* record that Check had parsed
C30_Witness ==
    /\ checkDone
    /\ last.hit
    /\ last.fetches = 0
    /\ fetched[last.id] # ZeroTime
    /\ last.at > fetched[last.id]
    /\ last.rights = newHydraRights(fedora[last.id])
    /\ matches(cacheNow, last.id, last.at) # {}

---------------------------------------------------------------------------
(* Properties of the gate on documents that do not parse, checked under Spec *)

\* C31: a rights document whose embargo date is there but does not parse is
\* taken as a malformed document: Check returns AuthNotFound and no rights
\* record for the object is in the cache.
C31_BadEmbargoIsNotFound ==
    (checkDone /\ fedora[last.id] = BadEmbargoDoc) =>
        /\ last.result = AuthNotFound
        /\ last.rights = Nil
        /\ matches(cacheNow, last.id, last.at) = {}

\* C32: a getRights whose fetch or decoding failed adds nothing to the cache
\* and leaves it as it was, and every Check for an id whose document cannot be
\* fetched or decoded fetches it again: the failure is never found in the cache.
C32_FailureNotCached ==
    [][checkStep =>
          /\ last'.rights = Nil =>
                 /\ <<data, head, tail>>' = <<data, head, tail>>
                 /\ fetched' = fetched
          /\ fedora[last'.id] \in {FetchError, Garbled} =>
                 /\ last'.rights = Nil
                 /\ ~last'.hit
                 /\ last'.fetches = 1
      ]_vars

\* a Check whose fetch failed while the cache held the record of another object
C32_Witness ==
    /\ checkDone
    /\ fedora[last.id] = FetchError
    /\ last.rights = Nil
    /\ last.fetches = 1
    /\ head # tail
    /\ data[tail].key # last.id
    /\ last.at < data[tail].t

---------------------------------------------------------------------------
(* Further properties of canView, checked under SpecCanView *)

\* C33: with no active embargo canView returns Allow for the anonymous user
\* only if "public" is a read or edit group, and Deny without "public",
\* whatever the people and group lists hold.
C33_AnonymousNeedsPublic ==
    (cvCalled /\ ~cvEmbargo /\ cvUser = AnonUser) =>
        /\ cvResult[1] = AuthAllow => "public" \in cvGroups
        /\ "public" \notin cvGroups => cvResult[1] = AuthDeny

\* the same for version "0.1" records that name no person with an empty id
C33_AnonymousNeedsPublicAmongNamedPeople ==
    (cvCalled /\ ~cvEmbargo /\ cvUser = AnonUser /\ cvHr.version = "0.1"
              /\ "" \notin cvPeople) =>
        /\ cvResult[1] = AuthAllow => "public" \in cvGroups
        /\ "public" \notin cvGroups => cvResult[1] = AuthDeny

\* C34: for a version "0.1" record, a user canView allows while the embargo is
\* active is allowed with the same lists when no embargo is active: with the
\* embargo taken off the record, and at every time from the embargo date on.
C34_EmbargoOnlyRestricts ==
    (cvCalled /\ cvHr.version = "0.1" /\ cvEmbargo /\ cvResult[1] = AuthAllow) =>
        /\ canView([cvHr EXCEPT !.embargo = ZeroTime], cvUser, cvNow) = AuthAllow
        /\ \A t \in cvHr.embargo..(EmbargoDay + 1) :
               canView(cvHr, cvUser, t) = AuthAllow

\* an editor admitted during the embargo of a record that is not public
C34_Witness ==
    /\ cvCalled /\ cvHr.version = "0.1" /\ cvEmbargo
    /\ cvResult[1] = AuthAllow
    /\ cvUser.Id \in Elems(cvHr.editPeople)
    /\ "public" \notin cvGroups
    /\ Elems(cvUser.Groups) \cap cvGroups = {}

---------------------------------------------------------------------------
(* Termination of StreamSeeker.Read, checked under SpecStreamLive *)

\* C35: every Read that has begun returns, whatever the length of its buffer
\* and whatever the source returns.
C35_ReadTerminates == (ss.pc # "idle") ~> (ss.pc = "idle")

---------------------------------------------------------------------------
(* The position of the HTTPSeeker, checked under SpecHTTP *)

\* C36: in every state of an HTTPSeeker, after any Seek and Read calls, the
\* position is at least 0 and at most the declared size.
C36_PositionInResource ==
    /\ 0 <= hs.pos
    /\ hs.pos <= hs.size

\* Seek alone keeps the position at or below the declared size, as long as
\* the sum it computes does not overflow (C20)
C36_SeekBelowSize ==
    (httpSeekDone /\ hs.ret.err = NoErr
        /\ httpSeekTarget \in MinInt..MaxInt) => hs.pos <= hs.size

---------------------------------------------------------------------------
(* The sweep of the cache, checked under SpecCacheLive *)

\* no Add is between its clock read and its update
noAddBegun == \A p \in Callers : pending[p].op # "Add"

\* the expiry of every entry between tail and head has passed
allExpired ==
    \A k \in 0..(liveCount(cacheNow) - 1) : liveAt(cacheNow, k).t < now

\* C37: once the expiry of every entry has passed, the sweeper empties the
\* cache (head = tail) unless a further Add comes first.
C37_EventuallyEmpty ==
    \A n \in 0..MaxAdds :
        (Len(log) = n /\ noAddBegun /\ allExpired)
            ~> (head = tail \/ Len(log) > n \/ ~noAddBegun)

\* a full cache of expired entries, none of them swept yet, with the sweeper
\* between its peek and its update
C37_Witness ==
    /\ noAddBegun
    /\ allExpired
    /\ liveCount(cacheNow) = DataLen - 1
    /\ pending[Sweeper].op = "prune"

---------------------------------------------------------------------------
(* The self-scheduling sweeper, checked under SpecSweep *)

\* the sweeper sleeps after a prune that left entries in the cache
sleepsOnEntries ==
    /\ pending[Sweeper].op = "sleep"
    /\ last.op = "prune"
    /\ last.post.head # last.post.tail

\* what prune of the variant returns: the zero time when the cache was empty,
\* the expiry of the entry at the tail when it leaves the cache non-empty
pruneReturnsOldest ==
    last.op = "prune" =>
        /\ last.pre.head = last.pre.tail => last.oldestTime = ZeroTime
        /\ last.post.head # last.post.tail =>
               last.oldestTime = last.post.data[last.post.tail].t

\* C38: prune returns the expiry of the oldest entry that remains (the zero
\* time when the cache was empty), and after a prune that leaves the cache
\* non-empty the sweeper's next wake-up is at that expiry, not later.
C38_WakeAtOldestExpiry ==
    /\ pruneReturnsOldest
    /\ sleepsOnEntries => pending[Sweeper].wake <= last.oldestTime

\* the part of C38 about what prune returns
C38_PruneReturnsOldest == pruneReturnsOldest /\ (Len(log) = 0 => head = tail)

---------------------------------------------------------------------------
(* The period of the sweeper, checked under SpecNew *)

\* the sweeper's ticker has been started by New
tickerStarted == pending[Sweeper].op = "ticker"

\* C39: the sweeper started by New(size, ttl) runs prune with a period of one
\* tenth of ttl, and of 30 milliseconds when that is shorter.
C39_PeriodIsTenthOfTtl ==
    tickerStarted =>
        pending[Sweeper].period =
            (IF last.expires \div 10 < 30 * Millisecond
             THEN 30 * Millisecond ELSE last.expires \div 10)

\* what New does compute, and what its sweeper runs at: the period of a tenth
\* of expires floored at 30ms is the local variable, the ticker's is a second
C39_PeriodIsOneSecond ==
    tickerStarted =>
        /\ last.period >= 30 * Millisecond
        /\ last.period >= last.expires \div 10
        /\ last.period \in {30 * Millisecond, last.expires \div 10}
        /\ pending[Sweeper].period = Second
        /\ pending[Sweeper].next = now + Second

====
